---- MODULE Spec2Model ----
(***************************************************************************)
(* State-machine model of the markets.fun backend: the Express routers     *)
(* traders.js, markets.js, copyTrades.js and x402.js over the Supabase     *)
(* store and the Substreams / blockchain / x402 services.                  *)
(*                                                                         *)
(* A handler is a chain of awaited I/O calls.  One action models one       *)
(* awaited call together with the synchronous code that follows it up to   *)
(* the next await (or up to the response); the first action of a handler   *)
(* also holds the validation that precedes its first await.  Requests in   *)
(* different slots of req interleave at the awaits, as on the Node event   *)
(* loop.                                                                   *)
(*                                                                         *)
(* Values.  A JS string is a sequence of one-character strings; a missing  *)
(* or empty string field is <<>> (both are falsy).  An optional JSON field *)
(* tested with `!== undefined` is <<>> when absent and <<v>> when present. *)
(* A JSON literal whose type matters is kept as its text ("true",          *)
(* "undefined", ...).  A null column is <<>>, a set column <<v>>.  Row ids *)
(* are positions in the table's sequence (serial ids); 0 is a null result. *)
(***************************************************************************)
EXTENDS Naturals, Sequences, FiniteSets, TLC

VARIABLES
  users,        \* table users: <<[wallet_address, is_public]>>
  traders,      \* table traders: <<[user_id, categories, updated_at]>>
  markets,      \* table markets: <<[id, question, category, creator_id, end_time, resolved]>>
  trades,       \* table trades: <<[user_id, market_id, prediction, amount, tx_hash]>>
  copy_trades,  \* table copy_trades
  x402_agents,  \* table x402_agents
  agent_executions,  \* table agent_executions
  req           \* the requests being handled, one per connection slot

store == <<users, traders, markets, trades, copy_trades, x402_agents, agent_executions>>
vars == <<users, traders, markets, trades, copy_trades, x402_agents, agent_executions, req>>

\* the tables a write to one table leaves alone
OnlyUsers == UNCHANGED <<traders, markets, trades, copy_trades, x402_agents, agent_executions>>
OnlyTraders == UNCHANGED <<users, markets, trades, copy_trades, x402_agents, agent_executions>>
OnlyMarkets == UNCHANGED <<users, traders, trades, copy_trades, x402_agents, agent_executions>>
OnlyTrades == UNCHANGED <<users, traders, markets, copy_trades, x402_agents, agent_executions>>
OnlyCopyTrades == UNCHANGED <<users, traders, markets, trades, x402_agents, agent_executions>>
OnlyAgents == UNCHANGED <<users, traders, markets, trades, copy_trades, agent_executions>>
OnlyExecutions == UNCHANGED <<users, traders, markets, trades, copy_trades, x402_agents>>

----------------------------------------------------------------------------
(* Bounds of the exploration. *)

\* values `new Date()` can take
MaxTime == 2
\* rows the store accepts in copy_trades before every further insert faults
MaxCopyTrades == 1
\* the connections whose requests are handled concurrently
Connections == {1, 2}

Times == 1..MaxTime
\* the instant of the writes in the specifications where the clock plays no part
WriteTimes == {1}

----------------------------------------------------------------------------
(* JavaScript conversions. *)

\* String.prototype.toLowerCase on the alphabet used for addresses
LowerChar(c) ==
  CASE c = "A" -> "a"
    [] c = "B" -> "b"
    [] OTHER -> c

\* mutant: the address kept as the request wrote it
KeepCase(str) == str

ToLower(str) == [i \in DOMAIN str |-> LowerChar(str[i])]

DigitVal(c) ==
  CASE c = "0" -> 0 [] c = "1" -> 1 [] c = "2" -> 2 [] c = "3" -> 3
    [] c = "4" -> 4 [] c = "5" -> 5 [] c = "6" -> 6 [] c = "7" -> 7
    [] c = "8" -> 8 [] c = "9" -> 9

RECURSIVE ParseDigits(_, _)
ParseDigits(str, acc) ==
  IF str = <<>> THEN acc
  ELSE ParseDigits(Tail(str), acc * 10 + DigitVal(Head(str)))

\* parseInt / parseFloat, on the decimal digit strings the requests carry
ParseInt(str) == ParseDigits(str, 0)
ParseFloat(str) == ParseDigits(str, 0)

\* `!x` for a field kept as a sequence: a missing or empty string
Falsy(x) == x = <<>>

\* `!x` for a field kept as one string
FalsyText(x) == x = ""

\* mutant: a test for presence in place of the test of the type
TypeofPresent(v) ==
  IF v = "undefined" THEN "undefined" ELSE "boolean"

\* typeof of a JSON literal kept as text
Typeof(v) ==
  IF v \in {"true", "false"} THEN "boolean"
  ELSE IF v = "undefined" THEN "undefined"
  ELSE IF v = "null" THEN "object"
  ELSE IF v \in {"0", "1"} THEN "number"
  ELSE "string"

\* the boolean a JSON literal "true" / "false" denotes
JsBool(v) == v = "true"

\* `x || d` for an optional field
OrElse(x, d) == IF x = <<>> THEN d ELSE x[1]

----------------------------------------------------------------------------
(* Requests. *)

Idle ==
  [kind |-> "none", pc |-> "idle", params |-> <<>>, body |-> <<>>,
   local |-> <<>>, calls |-> <<>>, faults |-> <<>>, status |-> 0, res |-> <<>>]

\* a slot takes a new request once its previous response has been sent
Free(s) == req[s].pc \in {"idle", "done"}

NewReq(kind, params, body, pc) ==
  [kind |-> kind, pc |-> pc, params |-> params, body |-> body,
   local |-> <<>>, calls |-> <<>>, faults |-> <<>>, status |-> 0, res |-> <<>>]

\* the request after one more awaited call, named by table/service and verb;
\* faults lists the calls that returned an error or threw
Outcome(r, call, fault) ==
  [r EXCEPT !.calls = Append(@, call),
            !.faults = IF fault THEN Append(@, call) ELSE @]

\* res.status(status).json(res): the handler returns or ends after it
Respond(r, status, res) ==
  [r EXCEPT !.pc = "done", !.status = status, !.res = res, !.local = <<>>]

Goto(r, pc, local) == [r EXCEPT !.pc = pc, !.local = local]

At(s, kind, pc) == req[s].kind = kind /\ req[s].pc = pc

----------------------------------------------------------------------------
(* The store: table users. *)

\* .from('users').select('id').eq('wallet_address', w).single()
SelectUserIdIn(tbl, w) ==
  IF \E i \in DOMAIN tbl : tbl[i].wallet_address = w
  THEN CHOOSE i \in DOMAIN tbl : tbl[i].wallet_address = w
  ELSE 0

SelectUserId(w) == SelectUserIdIn(users, w)

\* .from('users').upsert({wallet_address: w, [is_public]}): insert-or-update
\* keyed by wallet_address; only the columns sent are written, a column not
\* sent takes its default dflt on insert.
UpsertUser(w, is_public, dflt) ==
  LET i == SelectUserId(w) IN
  IF i # 0
  THEN [users EXCEPT ![i].is_public = OrElse(is_public, @)]
  ELSE Append(users, [wallet_address |-> w, is_public |-> OrElse(is_public, dflt)])

----------------------------------------------------------------------------
(* The store: table copy_trades. *)

CopyTradeRow(follower, trader, amount, categories, maxTrades) ==
  [follower_id |-> follower, trader_id |-> trader, amount |-> amount,
   categories |-> categories, max_trades |-> maxTrades, active |-> TRUE,
   updated_at |-> <<>>]

\* mutant: the ownership predicate .eq('follower_id', uid) left out
SelectCopyTradeById(id, uid) ==
  IF id \in DOMAIN copy_trades THEN id ELSE 0

\* .select('*').eq('id', id).eq('follower_id', uid).single()
SelectCopyTradeOwned(id, uid) ==
  IF id \in DOMAIN copy_trades /\ copy_trades[id].follower_id = uid THEN id ELSE 0

\* mutant: the filter .eq('active', true) left out
SelectCopyTradesAnyState(column, uid) ==
  SelectSeq([i \in DOMAIN copy_trades |-> i],
            LAMBDA i : IF column = "trader_id"
                       THEN copy_trades[i].trader_id = uid
                       ELSE copy_trades[i].follower_id = uid)

\* .eq('follower_id', uid).eq('active', true) or .eq('trader_id', uid).eq('active', true)
SelectActiveCopyTrades(column, uid) ==
  SelectSeq([i \in DOMAIN copy_trades |-> i],
            LAMBDA i : /\ copy_trades[i].active
                       /\ IF column = "trader_id"
                          THEN copy_trades[i].trader_id = uid
                          ELSE copy_trades[i].follower_id = uid)

\* the `updates` object of PUT: only the fields the body defines
PutUpdates(body) ==
  [amount |-> IF body.amount = <<>> THEN <<>> ELSE <<ParseFloat(body.amount[1])>>,
   categories |-> body.categories,
   max_trades |-> body.maxTrades,
   active |-> IF body.active = "undefined" THEN <<>> ELSE <<JsBool(body.active)>>]

\* .update(updates) applied to one row
ApplyUpdates(row, updates, t) ==
  [row EXCEPT !.amount = OrElse(updates.amount, @),
              !.categories = OrElse(updates.categories, @),
              !.max_trades = IF updates.max_trades = <<>> THEN @ ELSE updates.max_trades,
              !.active = OrElse(updates.active, @),
              !.updated_at = <<t>>]

----------------------------------------------------------------------------
(* copyTrades.js: POST /api/copy-trades *)

PostCopyTrade(s, bodies) ==
  \E b \in bodies :
    /\ Free(s)
    /\ req' = [req EXCEPT ![s] =
         IF Falsy(b.followerAddress) \/ Falsy(b.traderAddress) \/ Falsy(b.amount)
         THEN Respond(NewReq("POST /copy-trades", <<>>, b, "recv"), 400,
                      [error |-> "Missing required fields"])
         ELSE NewReq("POST /copy-trades", <<>>, b, "upsertFollower")]
    /\ UNCHANGED store

PostCopyTradeUpsertFollower(s) ==
  LET r == req[s] IN
  /\ At(s, "POST /copy-trades", "upsertFollower")
  /\ \E fault \in BOOLEAN, dflt \in BOOLEAN :
       LET w == ToLower(r.body.followerAddress)
           after == IF fault THEN users ELSE UpsertUser(w, <<>>, dflt)
       IN
       /\ users' = after
       /\ req' = [req EXCEPT ![s] =
            Goto(Outcome(r, "users.upsert", fault), "upsertTrader",
                 [follower |-> IF fault THEN 0 ELSE SelectUserIdIn(after, w)])]
  /\ OnlyUsers

\* mutant: the trader upserted like the follower, with no is_public
PostCopyTradeUpsertTraderPlain(s) ==
  LET r == req[s] IN
  /\ At(s, "POST /copy-trades", "upsertTrader")
  /\ \E fault \in BOOLEAN, dflt \in BOOLEAN :
       LET w == ToLower(r.body.traderAddress)
           after == IF fault THEN users ELSE UpsertUser(w, <<>>, dflt)
           called(f) == Outcome(r, "users.upsert", f)
       IN
       /\ users' = after
       /\ req' = [req EXCEPT ![s] =
            IF r.local.follower = 0 \/ fault
            THEN Respond(called(fault), 500, [error |-> "Database error"])
            ELSE Goto(called(fault), "insert",
                      [follower |-> r.local.follower,
                       trader |-> SelectUserIdIn(after, w)])]
  /\ OnlyUsers

\* the trader is upserted whatever the follower upsert returned; the two
\* errors are tested together afterwards
PostCopyTradeUpsertTrader(s) ==
  LET r == req[s] IN
  /\ At(s, "POST /copy-trades", "upsertTrader")
  /\ \E fault \in BOOLEAN, dflt \in BOOLEAN :
       LET w == ToLower(r.body.traderAddress)
           after == IF fault THEN users ELSE UpsertUser(w, <<TRUE>>, dflt)
           called(f) == Outcome(r, "users.upsert", f)
       IN
       /\ users' = after
       /\ req' = [req EXCEPT ![s] =
            IF r.local.follower = 0 \/ fault
            THEN Respond(called(fault), 500, [error |-> "Database error"])
            ELSE Goto(called(fault), "insert",
                      [follower |-> r.local.follower,
                       trader |-> SelectUserIdIn(after, w)])]
  /\ OnlyUsers

\* the store takes the row while the table holds fewer than cap rows
PostCopyTradeInsert(s, cap) ==
  LET r == req[s]
      called(f) == Outcome(r, "copy_trades.insert", f)
      row == CopyTradeRow(r.local.follower, r.local.trader,
                          ParseFloat(r.body.amount),
                          OrElse(r.body.categories, <<>>), r.body.maxTrades)
  IN
  /\ At(s, "POST /copy-trades", "insert")
  /\ \/ /\ Len(copy_trades) < cap
        /\ copy_trades' = Append(copy_trades, row)
        /\ req' = [req EXCEPT ![s] =
             Respond(called(FALSE), 200,
                     [id |-> Len(copy_trades) + 1,
                      traderAddress |-> ToLower(r.body.traderAddress),
                      followerAddress |-> ToLower(r.body.followerAddress),
                      amount |-> row.amount, active |-> row.active])]
     \/ /\ copy_trades' = copy_trades
        /\ req' = [req EXCEPT ![s] =
             Respond(called(TRUE), 500, [error |-> "Failed to create copy trade"])]
  /\ OnlyCopyTrades

----------------------------------------------------------------------------
(* copyTrades.js: GET /api/copy-trades/user/:address *)

GetUserCopyTrades(s, addresses, types) ==
  \E a \in addresses, type \in types :
    /\ Free(s)
    /\ req' = [req EXCEPT ![s] =
         NewReq("GET /copy-trades/user/:address", [address |-> a, type |-> type],
                <<>>, "selectUser")]
    /\ UNCHANGED store

\* only `data` is read: an error leaves user null like a missing row
GetUserCopyTradesSelectUser(s) ==
  LET r == req[s]
      called(f) == Outcome(r, "users.select", f)
  IN
  /\ At(s, "GET /copy-trades/user/:address", "selectUser")
  /\ \E fault \in BOOLEAN :
       LET user == IF fault THEN 0 ELSE SelectUserId(ToLower(r.params.address)) IN
       req' = [req EXCEPT ![s] =
         IF user = 0
         THEN Respond(called(fault), 200, [copyTrades |-> <<>>])
         ELSE Goto(called(fault), "selectCopyTrades", [user |-> user])]
  /\ UNCHANGED store

FormatCopyTrade(i) ==
  [id |-> i,
   traderAddress |-> users[copy_trades[i].trader_id].wallet_address,
   followerAddress |-> users[copy_trades[i].follower_id].wallet_address,
   active |-> copy_trades[i].active]

\* mutant: the direction of ?type ignored, the filter always on follower_id
GetUserCopyTradesSelectFollowing(s) ==
  LET r == req[s]
      called(f) == Outcome(r, "copy_trades.select", f)
      rows == SelectActiveCopyTrades("follower_id", r.local.user)
  IN
  /\ At(s, "GET /copy-trades/user/:address", "selectCopyTrades")
  /\ \E fault \in BOOLEAN :
       req' = [req EXCEPT ![s] =
         IF fault
         THEN Respond(called(fault), 500, [error |-> "Failed to fetch copy trades"])
         ELSE Respond(called(fault), 200,
                      [copyTrades |-> [k \in DOMAIN rows |-> FormatCopyTrade(rows[k])]])]
  /\ UNCHANGED store

GetUserCopyTradesSelect(s) ==
  LET r == req[s]
      called(f) == Outcome(r, "copy_trades.select", f)
      column == IF r.params.type = "followers" THEN "trader_id" ELSE "follower_id"
      rows == SelectActiveCopyTrades(column, r.local.user)
  IN
  /\ At(s, "GET /copy-trades/user/:address", "selectCopyTrades")
  /\ \E fault \in BOOLEAN :
       req' = [req EXCEPT ![s] =
         IF fault
         THEN Respond(called(fault), 500, [error |-> "Failed to fetch copy trades"])
         ELSE Respond(called(fault), 200,
                      [copyTrades |-> [k \in DOMAIN rows |-> FormatCopyTrade(rows[k])]])]
  /\ UNCHANGED store

----------------------------------------------------------------------------
(* copyTrades.js: PUT /api/copy-trades/:id *)

PutCopyTrade(s, ids, bodies) ==
  \E id \in ids, b \in bodies :
    /\ Free(s)
    /\ req' = [req EXCEPT ![s] =
         IF Falsy(b.walletAddress)
         THEN Respond(NewReq("PUT /copy-trades/:id", [id |-> id], b, "recv"), 400,
                      [error |-> "Wallet address required"])
         ELSE NewReq("PUT /copy-trades/:id", [id |-> id], b, "selectUser")]
    /\ UNCHANGED store

PutCopyTradeSelectUser(s) ==
  LET r == req[s]
      called(f) == Outcome(r, "users.select", f)
  IN
  /\ At(s, "PUT /copy-trades/:id", "selectUser")
  /\ \E fault \in BOOLEAN :
       LET user == IF fault THEN 0 ELSE SelectUserId(ToLower(r.body.walletAddress)) IN
       req' = [req EXCEPT ![s] =
         IF user = 0
         THEN Respond(called(fault), 404, [error |-> "User not found"])
         ELSE Goto(called(fault), "selectExisting", [user |-> user])]
  /\ UNCHANGED store

PutCopyTradeSelectExisting(s) ==
  LET r == req[s]
      called(f) == Outcome(r, "copy_trades.select", f)
  IN
  /\ At(s, "PUT /copy-trades/:id", "selectExisting")
  /\ \E fault \in BOOLEAN :
       LET existing == IF fault THEN 0
                       ELSE SelectCopyTradeOwned(ParseInt(r.params.id), r.local.user)
       IN
       req' = [req EXCEPT ![s] =
         IF existing = 0
         THEN Respond(called(fault), 404, [error |-> "Copy trade not found"])
         ELSE Goto(called(fault), "update", [updates |-> PutUpdates(r.body)])]
  /\ UNCHANGED store

\* .update(updates).eq('id', id): updated_at is the `new Date()` of the handler
PutCopyTradeUpdate(s, times) ==
  LET r == req[s]
      called(f) == Outcome(r, "copy_trades.update", f)
      id == ParseInt(r.params.id)
  IN
  /\ At(s, "PUT /copy-trades/:id", "update")
  /\ \/ \E t \in times :
          LET updated == ApplyUpdates(copy_trades[id], r.local.updates, t) IN
          /\ copy_trades' = [copy_trades EXCEPT ![id] = updated]
          /\ req' = [req EXCEPT ![s] =
               Respond(called(FALSE), 200,
                       [id |-> id, amount |-> updated.amount,
                        categories |-> updated.categories,
                        maxTrades |-> updated.max_trades,
                        active |-> updated.active, updatedAt |-> updated.updated_at])]
     \/ /\ copy_trades' = copy_trades
        /\ req' = [req EXCEPT ![s] =
             Respond(called(TRUE), 500, [error |-> "Failed to update copy trade"])]
  /\ OnlyCopyTrades

----------------------------------------------------------------------------
(* copyTrades.js: DELETE /api/copy-trades/:id *)

DeleteCopyTrade(s, ids, addresses) ==
  \E id \in ids, w \in addresses :
    /\ Free(s)
    /\ req' = [req EXCEPT ![s] =
         IF Falsy(w)
         THEN Respond(NewReq("DELETE /copy-trades/:id", [id |-> id],
                             [walletAddress |-> w], "recv"), 400,
                      [error |-> "Wallet address required"])
         ELSE NewReq("DELETE /copy-trades/:id", [id |-> id],
                     [walletAddress |-> w], "selectUser")]
    /\ UNCHANGED store

DeleteCopyTradeSelectUser(s) ==
  LET r == req[s]
      called(f) == Outcome(r, "users.select", f)
  IN
  /\ At(s, "DELETE /copy-trades/:id", "selectUser")
  /\ \E fault \in BOOLEAN :
       LET user == IF fault THEN 0 ELSE SelectUserId(ToLower(r.body.walletAddress)) IN
       req' = [req EXCEPT ![s] =
         IF user = 0
         THEN Respond(called(fault), 404, [error |-> "User not found"])
         ELSE Goto(called(fault), "update", [user |-> user])]
  /\ UNCHANGED store

\* .update({active: false, updated_at}).eq('id', id).eq('follower_id', uid)
\* .select().single(): the rows the filter matches are written; no match is
\* an error of .single()
DeleteCopyTradeUpdate(s, times) ==
  LET r == req[s]
      called(f) == Outcome(r, "copy_trades.update", f)
  IN
  /\ At(s, "DELETE /copy-trades/:id", "update")
  /\ \E fault \in BOOLEAN, t \in times :
       LET updated == IF fault THEN 0
                      ELSE SelectCopyTradeOwned(ParseInt(r.params.id), r.local.user)
       IN
       /\ copy_trades' =
            IF updated = 0 THEN copy_trades
            ELSE [copy_trades EXCEPT ![updated].active = FALSE,
                                     ![updated].updated_at = <<t>>]
       /\ req' = [req EXCEPT ![s] =
            IF updated = 0
            THEN Respond(called(fault), 404, [error |-> "Copy trade not found"])
            ELSE Respond(called(fault), 200, [copyTradeId |-> updated])]
  /\ OnlyCopyTrades

----------------------------------------------------------------------------
(* copyTrades.js: GET /api/copy-trades/:id/executions *)

GetCopyTradeExecutions(s, ids, addresses) ==
  \E id \in ids, w \in addresses :
    /\ Free(s)
    /\ req' = [req EXCEPT ![s] =
         IF Falsy(w)
         THEN Respond(NewReq("GET /copy-trades/:id/executions",
                             [id |-> id, walletAddress |-> w], <<>>, "recv"), 400,
                      [error |-> "Wallet address required"])
         ELSE NewReq("GET /copy-trades/:id/executions",
                     [id |-> id, walletAddress |-> w], <<>>, "selectUser")]
    /\ UNCHANGED store

GetCopyTradeExecutionsSelectUser(s) ==
  LET r == req[s]
      called(f) == Outcome(r, "users.select", f)
  IN
  /\ At(s, "GET /copy-trades/:id/executions", "selectUser")
  /\ \E fault \in BOOLEAN :
       LET user == IF fault THEN 0 ELSE SelectUserId(ToLower(r.params.walletAddress)) IN
       req' = [req EXCEPT ![s] =
         IF user = 0
         THEN Respond(called(fault), 404, [error |-> "User not found"])
         ELSE Goto(called(fault), "selectCopyTrade", [user |-> user])]
  /\ UNCHANGED store

GetCopyTradeExecutionsSelectCopyTrade(s) ==
  LET r == req[s]
      called(f) == Outcome(r, "copy_trades.select", f)
  IN
  /\ At(s, "GET /copy-trades/:id/executions", "selectCopyTrade")
  /\ \E fault \in BOOLEAN :
       LET copyTrade == IF fault THEN 0
                        ELSE SelectCopyTradeOwned(ParseInt(r.params.id), r.local.user)
       IN
       req' = [req EXCEPT ![s] =
         IF copyTrade = 0
         THEN Respond(called(fault), 404, [error |-> "Copy trade not found"])
         ELSE Goto(called(fault), "selectExecutions", <<>>)]
  /\ UNCHANGED store

\* no route writes copy_trade_executions: the table is empty
GetCopyTradeExecutionsSelect(s) ==
  LET r == req[s]
      called(f) == Outcome(r, "copy_trade_executions.select", f)
  IN
  /\ At(s, "GET /copy-trades/:id/executions", "selectExecutions")
  /\ \E fault \in BOOLEAN :
       req' = [req EXCEPT ![s] =
         IF fault
         THEN Respond(called(fault), 500, [error |-> "Failed to fetch executions"])
         ELSE Respond(called(fault), 200,
                      [executions |-> <<>>, copyTradeId |-> ParseInt(r.params.id)])]
  /\ UNCHANGED store

----------------------------------------------------------------------------
(* The store: tables traders and markets, as the read routes query them. *)

\* the traders row of a user, 0 when there is none
SelectTraderOfIn(tbl, uid) ==
  IF \E i \in DOMAIN tbl : tbl[i].user_id = uid
  THEN CHOOSE i \in DOMAIN tbl : tbl[i].user_id = uid
  ELSE 0

SelectTraderOf(uid) == SelectTraderOfIn(traders, uid)

\* .from('traders').upsert({user_id, categories, updated_at}): insert-or-update
\* of the one profile a User has
UpsertTrader(uid, categories, t) ==
  LET i == SelectTraderOf(uid) IN
  IF i # 0
  THEN [traders EXCEPT ![i].categories = categories, ![i].updated_at = <<t>>]
  ELSE Append(traders, [user_id |-> uid, categories |-> categories, updated_at |-> <<t>>])

Contains(seq, x) == \E k \in DOMAIN seq : seq[k] = x

Min(a, b) == IF a <= b THEN a ELSE b

\* .limit(n)
Limit(seq, n) == SubSeq(seq, 1, Min(n, Len(seq)))

\* default of the leaderboard's `limit` query parameter
LeaderboardDefaultLimit == 50
\* default of the active markets' `limit` query parameter
ActiveDefaultLimit == 20

\* traders joined to users (users!inner) with users.is_public = true, and
\* .contains('categories', [category]) when a category is asked for; no route
\* writes win_rate, so .order('win_rate') leaves the rows in table order
SelectPublicTraders(category, limit) ==
  Limit(SelectSeq([i \in DOMAIN traders |-> i],
                  LAMBDA i : /\ users[traders[i].user_id].is_public
                             /\ category = <<>> \/ Contains(traders[i].categories, category[1])),
        limit)

\* one leaderboard entry from a traders row: the statistics columns are
\* written by no route and are null
FormatTrader(i) ==
  [address |-> users[traders[i].user_id].wallet_address,
   winRate |-> <<>>, totalTrades |-> <<>>, profitLoss |-> <<>>, totalVolume |-> <<>>,
   categories |-> traders[i].categories]

\* traders joined to users with users.wallet_address = w, .single()
SelectTraderByAddress(w) ==
  IF SelectUserId(w) = 0 THEN 0 ELSE SelectTraderOf(SelectUserId(w))

\* markets with resolved = false, end_time >= now, and the category asked for
SelectOpenMarkets(category, limit, now) ==
  Limit(SelectSeq([i \in DOMAIN markets |-> i],
                  LAMBDA i : /\ ~markets[i].resolved
                             /\ markets[i].end_time >= now
                             /\ category = <<>> \/ markets[i].category = category[1]),
        limit)

\* .from('markets').select('*').eq('id', id).single()
SelectMarketById(id) ==
  IF \E i \in DOMAIN markets : markets[i].id = id
  THEN CHOOSE i \in DOMAIN markets : markets[i].id = id
  ELSE 0

\* .from('trades').select(...).eq('market_id', id).limit(10)
RecentTradesLimit == 10

SelectTradesOfMarket(id) ==
  Limit(SelectSeq([i \in DOMAIN trades |-> i], LAMBDA i : trades[i].market_id = id),
        RecentTradesLimit)

----------------------------------------------------------------------------
(* Static data of the routes. *)

\* mockTraders of GET /leaderboard (lastActive, a `new Date()`, left out)
MockTraders ==
  << [address |-> <<"0", "x", "1", "2", "3", "4", "5", "6", "7", "8", "9", "0", "1", "2", "3", "4", "5", "6", "7", "8", "9", "0", "1", "2", "3", "4", "5", "6", "7", "8", "9", "0", "1", "2", "3", "4", "5", "6", "7", "8", "9", "0">>,
      winRate |-> <<"78.5">>, totalTrades |-> <<"45">>, profitLoss |-> <<"1250.75">>,
      totalVolume |-> <<"5000">>, categories |-> <<"sports", "politics">>],
     [address |-> <<"0", "x", "0", "9", "8", "7", "6", "5", "4", "3", "2", "1", "0", "9", "8", "7", "6", "5", "4", "3", "2", "1", "0", "9", "8", "7", "6", "5", "4", "3", "2", "1", "0", "9", "8", "7", "6", "5", "4", "3", "2", "1">>,
      winRate |-> <<"65.2">>, totalTrades |-> <<"32">>, profitLoss |-> <<"890.25">>,
      totalVolume |-> <<"3200">>, categories |-> <<"finance", "sports">>],
     [address |-> <<"0", "x", "1", "1", "1", "1", "1", "1", "1", "1", "1", "1", "1", "1", "1", "1", "1", "1", "1", "1", "1", "1", "1", "1", "1", "1", "1", "1", "1", "1", "1", "1", "1", "1", "1", "1", "1", "1", "1", "1", "1", "1">>,
      winRate |-> <<"82.1">>, totalTrades |-> <<"28">>, profitLoss |-> <<"1580.50">>,
      totalVolume |-> <<"4100">>, categories |-> <<"politics">>] >>

\* the demo markets of GET /active (endTime and created_at, both computed from
\* the clock, left out)
DemoMarkets ==
  << [id |-> 0, question |-> "Will Lakers win their next game?",
      category |-> "sports", totalYes |-> "150.5", totalNo |-> "89.2",
      resolved |-> FALSE],
     [id |-> 1, question |-> "Will Bitcoin hit $100k by end of month?",
      category |-> "finance", totalYes |-> "89.7", totalNo |-> "110.3",
      resolved |-> FALSE],
     [id |-> 2, question |-> "Will it rain tomorrow in New York?",
      category |-> "weather", totalYes |-> "45.2", totalNo |-> "67.8",
      resolved |-> FALSE] >>

----------------------------------------------------------------------------
(* traders.js: GET /api/traders/leaderboard *)

\* `limit = dflt` of the query destructuring, then parseInt(limit)
LimitOf(limit, dflt) == IF limit = <<>> THEN dflt ELSE ParseInt(limit)

\* mutant: an empty list tagged as the mock list is
LeaderboardSourceMock(list) == IF Len(list) > 0 THEN "substreams" ELSE "mock"

LeaderboardSource(list) == IF Len(list) > 0 THEN "substreams" ELSE "cache"

GetLeaderboard(s, categories, limits) ==
  \E category \in categories, limit \in limits :
    /\ Free(s)
    /\ req' = [req EXCEPT ![s] =
         NewReq("GET /traders/leaderboard", [category |-> category, limit |-> limit],
                <<>>, "substreams")]
    /\ UNCHANGED store

\* substreamsService.getTraderLeaderboard throws, or returns one of lists
GetLeaderboardSubstreams(s, lists) ==
  LET r == req[s]
      called(f) == Outcome(r, "substreams.getTraderLeaderboard", f)
  IN
  /\ At(s, "GET /traders/leaderboard", "substreams")
  /\ \/ req' = [req EXCEPT ![s] = Goto(called(TRUE), "selectTraders", <<>>)]
     \/ \E list \in lists :
          req' = [req EXCEPT ![s] =
            Respond(called(FALSE), 200,
                    [traders |-> list, source |-> LeaderboardSource(list)])]
  /\ UNCHANGED store

\* mutant: the list of the store tagged by its tier, "cache" whatever its
\* length
GetLeaderboardSelectTradersCache(s) ==
  LET r == req[s]
      called(f) == Outcome(r, "traders.select", f)
      rows == SelectPublicTraders(r.params.category,
                                  LimitOf(r.params.limit, LeaderboardDefaultLimit))
      list == [k \in DOMAIN rows |-> FormatTrader(rows[k])]
  IN
  /\ At(s, "GET /traders/leaderboard", "selectTraders")
  /\ \E fault \in BOOLEAN :
       req' = [req EXCEPT ![s] =
         IF fault
         THEN Respond(called(fault), 200, [traders |-> MockTraders, source |-> "mock"])
         ELSE Respond(called(fault), 200, [traders |-> list, source |-> "cache"])]
  /\ UNCHANGED store

\* the store query of the inner catch; its error is thrown to the outer catch,
\* which answers with the mock list
GetLeaderboardSelectTraders(s) ==
  LET r == req[s]
      called(f) == Outcome(r, "traders.select", f)
      rows == SelectPublicTraders(r.params.category,
                                  LimitOf(r.params.limit, LeaderboardDefaultLimit))
      list == [k \in DOMAIN rows |-> FormatTrader(rows[k])]
  IN
  /\ At(s, "GET /traders/leaderboard", "selectTraders")
  /\ \E fault \in BOOLEAN :
       req' = [req EXCEPT ![s] =
         IF fault
         THEN Respond(called(fault), 200, [traders |-> MockTraders, source |-> "mock"])
         ELSE Respond(called(fault), 200,
                      [traders |-> list, source |-> LeaderboardSource(list)])]
  /\ UNCHANGED store

----------------------------------------------------------------------------
(* traders.js: GET /api/traders/:address *)

GetTrader(s, addresses) ==
  \E a \in addresses :
    /\ Free(s)
    /\ req' = [req EXCEPT ![s] =
         NewReq("GET /traders/:address", [address |-> a], <<>>, "substreams")]
    /\ UNCHANGED store

\* substreamsService.getTraderDetails throws, or returns one of details
GetTraderSubstreams(s, details) ==
  LET r == req[s]
      called(f) == Outcome(r, "substreams.getTraderDetails", f)
  IN
  /\ At(s, "GET /traders/:address", "substreams")
  /\ \/ req' = [req EXCEPT ![s] = Goto(called(TRUE), "selectTrader", <<>>)]
     \/ \E d \in details :
          req' = [req EXCEPT ![s] = Respond(called(FALSE), 200, d)]
  /\ UNCHANGED store

\* mutant: the error of the store query thrown to the outer catch
GetTraderSelectTraderThrows(s) ==
  LET r == req[s]
      called(f) == Outcome(r, "traders.select", f)
  IN
  /\ At(s, "GET /traders/:address", "selectTrader")
  /\ \E fault \in BOOLEAN :
       req' = [req EXCEPT ![s] =
         Respond(called(fault), IF fault THEN 500 ELSE 404,
                 [error |-> "Trader not found"])]
  /\ UNCHANGED store

GetTraderSelectTrader(s) ==
  LET r == req[s]
      called(f) == Outcome(r, "traders.select", f)
  IN
  /\ At(s, "GET /traders/:address", "selectTrader")
  /\ \E fault \in BOOLEAN :
       LET data == IF fault THEN 0 ELSE SelectTraderByAddress(ToLower(r.params.address)) IN
       req' = [req EXCEPT ![s] =
         IF data = 0
         THEN Respond(called(fault), 404, [error |-> "Trader not found"])
         ELSE Respond(called(fault), 200,
                      [address |-> users[traders[data].user_id].wallet_address,
                       categories |-> traders[data].categories,
                       isPublic |-> users[traders[data].user_id].is_public])]
  /\ UNCHANGED store

----------------------------------------------------------------------------
(* traders.js: POST /api/traders/register *)

\* mutant: the flag of the body ignored
IsPublicAlways(isPublic) == TRUE

\* `isPublic = true` of the body destructuring
IsPublicOf(isPublic) == IF isPublic = "undefined" THEN TRUE ELSE JsBool(isPublic)

PostRegister(s, bodies) ==
  \E b \in bodies :
    /\ Free(s)
    /\ req' = [req EXCEPT ![s] =
         IF Falsy(b.walletAddress)
         THEN Respond(NewReq("POST /traders/register", <<>>, b, "recv"), 400,
                      [error |-> "Wallet address required"])
         ELSE NewReq("POST /traders/register", <<>>, b, "upsertUser")]
    /\ UNCHANGED store

PostRegisterUpsertUser(s) ==
  LET r == req[s]
      called(f) == Outcome(r, "users.upsert", f)
      w == ToLower(r.body.walletAddress)
  IN
  /\ At(s, "POST /traders/register", "upsertUser")
  /\ \/ \E dflt \in BOOLEAN :
          LET after == UpsertUser(w, <<IsPublicOf(r.body.isPublic)>>, dflt) IN
          /\ users' = after
          /\ req' = [req EXCEPT ![s] =
               Goto(called(FALSE), "upsertTrader", [user |-> SelectUserIdIn(after, w)])]
     \/ /\ users' = users
        /\ req' = [req EXCEPT ![s] =
             Respond(called(TRUE), 500, [error |-> "Database error"])]
  /\ OnlyUsers

\* mutant: the profile upsert keeps the categories of a profile already stored
PostRegisterUpsertTraderKeeps(s) ==
  LET r == req[s]
      called(f) == Outcome(r, "traders.upsert", f)
      stored == SelectTraderOf(r.local.user)
      categories == IF stored # 0 THEN traders[stored].categories
                    ELSE OrElse(r.body.categories, <<>>)
  IN
  /\ At(s, "POST /traders/register", "upsertTrader")
  /\ \/ \E t \in Times :
          LET after == UpsertTrader(r.local.user, categories, t) IN
          /\ traders' = after
          /\ req' = [req EXCEPT ![s] =
               Respond(called(FALSE), 200,
                       [id |-> SelectTraderOfIn(after, r.local.user),
                        address |-> ToLower(r.body.walletAddress),
                        isPublic |-> IsPublicOf(r.body.isPublic),
                        categories |-> categories])]
     \/ /\ traders' = traders
        /\ req' = [req EXCEPT ![s] =
             Respond(called(TRUE), 500, [error |-> "Database error"])]
  /\ OnlyTraders

PostRegisterUpsertTrader(s) ==
  LET r == req[s]
      called(f) == Outcome(r, "traders.upsert", f)
      categories == OrElse(r.body.categories, <<>>)
  IN
  /\ At(s, "POST /traders/register", "upsertTrader")
  /\ \/ \E t \in Times :
          LET after == UpsertTrader(r.local.user, categories, t) IN
          /\ traders' = after
          /\ req' = [req EXCEPT ![s] =
               Respond(called(FALSE), 200,
                       [id |-> SelectTraderOfIn(after, r.local.user),
                        address |-> ToLower(r.body.walletAddress),
                        isPublic |-> IsPublicOf(r.body.isPublic),
                        categories |-> categories])]
     \/ /\ traders' = traders
        /\ req' = [req EXCEPT ![s] =
             Respond(called(TRUE), 500, [error |-> "Database error"])]
  /\ OnlyTraders

----------------------------------------------------------------------------
(* traders.js: GET /api/traders/stats/:address *)

GetStats(s, addresses) ==
  \E a \in addresses :
    /\ Free(s)
    /\ req' = [req EXCEPT ![s] =
         NewReq("GET /traders/stats/:address", [address |-> a], <<>>, "substreams")]
    /\ UNCHANGED store

GetStatsSubstreams(s, details) ==
  LET r == req[s]
      called(f) == Outcome(r, "substreams.getTraderDetails", f)
  IN
  /\ At(s, "GET /traders/stats/:address", "substreams")
  /\ \/ req' = [req EXCEPT ![s] = Goto(called(TRUE), "selectTrader", <<>>)]
     \/ \E d \in details :
          req' = [req EXCEPT ![s] = Respond(called(FALSE), 200, d)]
  /\ UNCHANGED store

\* `data.win_rate || 0` and the like: the statistics columns are null
ZeroStats(address, categories) ==
  [address |-> address, winRate |-> 0, totalTrades |-> 0, profitLoss |-> 0,
   totalVolume |-> 0, categories |-> categories]

\* .single() with no row is the error PGRST116, which the handler lets pass;
\* any other error is thrown to the outer catch
GetStatsSelectTrader(s) ==
  LET r == req[s]
      called(f) == Outcome(r, "traders.select", f)
      data == SelectTraderByAddress(ToLower(r.params.address))
  IN
  /\ At(s, "GET /traders/stats/:address", "selectTrader")
  /\ \E fault \in BOOLEAN :
       req' = [req EXCEPT ![s] =
         IF fault
         THEN Respond(called(fault), 500, [error |-> "Failed to fetch stats"])
         ELSE Respond(called(fault), 200,
                      ZeroStats(r.params.address,
                                IF data = 0 THEN <<>> ELSE traders[data].categories))]
  /\ UNCHANGED store

----------------------------------------------------------------------------
(* markets.js: GET /api/markets/active *)

\* computed after the demo list has replaced an empty one
ActiveSource(list) == IF Len(list) > 0 THEN "blockchain" ELSE "demo"

\* mutant: an empty list answered as it is
OrNothing(list) == list

\* `if (!markets || markets.length === 0) markets = [demo markets]`; a null
\* result of the service is <<>> here
OrDemoMarkets(list) == IF list = <<>> THEN DemoMarkets ELSE list

GetActive(s, categories, limits) ==
  \E category \in categories, limit \in limits :
    /\ Free(s)
    /\ req' = [req EXCEPT ![s] =
         NewReq("GET /markets/active", [category |-> category, limit |-> limit],
                <<>>, "blockchain")]
    /\ UNCHANGED store

\* blockchainService.getActiveMarkets throws, or returns one of lists
GetActiveBlockchain(s, lists) ==
  LET r == req[s]
      called(f) == Outcome(r, "blockchain.getActiveMarkets", f)
  IN
  /\ At(s, "GET /markets/active", "blockchain")
  /\ \/ req' = [req EXCEPT ![s] = Goto(called(TRUE), "selectMarkets", <<>>)]
     \/ \E list \in lists :
          req' = [req EXCEPT ![s] =
            Respond(called(FALSE), 200,
                    [markets |-> OrDemoMarkets(list),
                     source |-> ActiveSource(OrDemoMarkets(list))])]
  /\ UNCHANGED store

\* the store query of the inner catch; its error is thrown to the outer catch
GetActiveSelectMarkets(s) ==
  LET r == req[s]
      called(f) == Outcome(r, "markets.select", f)
  IN
  /\ At(s, "GET /markets/active", "selectMarkets")
  /\ \/ \E now \in Times :
          LET rows == SelectOpenMarkets(r.params.category,
                                        LimitOf(r.params.limit, ActiveDefaultLimit), now)
              list == OrDemoMarkets([k \in DOMAIN rows |-> markets[rows[k]]])
          IN
          req' = [req EXCEPT ![s] =
            Respond(called(FALSE), 200,
                    [markets |-> list, source |-> ActiveSource(list)])]
     \/ req' = [req EXCEPT ![s] =
          Respond(called(TRUE), 500, [error |-> "Failed to fetch active markets"])]
  /\ UNCHANGED store

----------------------------------------------------------------------------
(* markets.js: GET /api/markets/:id *)

GetMarket(s, ids) ==
  \E id \in ids :
    /\ Free(s)
    /\ req' = [req EXCEPT ![s] =
         NewReq("GET /markets/:id", [id |-> id], <<>>, "blockchain")]
    /\ UNCHANGED store

\* blockchainService.getMarket throws, or returns one of results
GetMarketBlockchain(s, results) ==
  LET r == req[s]
      called(f) == Outcome(r, "blockchain.getMarket", f)
  IN
  /\ At(s, "GET /markets/:id", "blockchain")
  /\ \/ req' = [req EXCEPT ![s] = Goto(called(TRUE), "selectMarket", <<>>)]
     \/ \E m \in results :
          req' = [req EXCEPT ![s] = Goto(called(FALSE), "selectTrades", [market |-> m])]
  /\ UNCHANGED store

\* mutant: a demo market substituted when the store has no row
GetMarketSelectMarketDemo(s) ==
  LET r == req[s]
      called(f) == Outcome(r, "markets.select", f)
  IN
  /\ At(s, "GET /markets/:id", "selectMarket")
  /\ \E fault \in BOOLEAN :
       LET data == IF fault THEN 0 ELSE SelectMarketById(ParseInt(r.params.id)) IN
       req' = [req EXCEPT ![s] =
         Goto(called(fault), "selectTrades",
              [market |-> IF data = 0 THEN DemoMarkets[1] ELSE markets[data]])]
  /\ UNCHANGED store

GetMarketSelectMarket(s) ==
  LET r == req[s]
      called(f) == Outcome(r, "markets.select", f)
  IN
  /\ At(s, "GET /markets/:id", "selectMarket")
  /\ \E fault \in BOOLEAN :
       LET data == IF fault THEN 0 ELSE SelectMarketById(ParseInt(r.params.id)) IN
       req' = [req EXCEPT ![s] =
         IF data = 0
         THEN Respond(called(fault), 404, [error |-> "Market not found"])
         ELSE Goto(called(fault), "selectTrades", [market |-> markets[data]])]
  /\ UNCHANGED store

\* an error of the trades query is only logged: recentTrades is then []
GetMarketSelectTrades(s) ==
  LET r == req[s]
      called(f) == Outcome(r, "trades.select", f)
      rows == SelectTradesOfMarket(ParseInt(r.params.id))
  IN
  /\ At(s, "GET /markets/:id", "selectTrades")
  /\ \E fault \in BOOLEAN :
       req' = [req EXCEPT ![s] =
         Respond(called(fault), 200,
                 [market |-> r.local.market,
                  recentTrades |-> IF fault THEN <<>>
                                   ELSE [k \in DOMAIN rows |-> trades[rows[k]]]])]
  /\ UNCHANGED store

----------------------------------------------------------------------------
(* markets.js: POST /api/markets/create *)

PostCreate(s, bodies) ==
  \E b \in bodies :
    /\ Free(s)
    /\ req' = [req EXCEPT ![s] =
         IF \/ Falsy(b.walletAddress) \/ FalsyText(b.question)
            \/ FalsyText(b.category) \/ Falsy(b.duration)
         THEN Respond(NewReq("POST /markets/create", <<>>, b, "recv"), 400,
                      [error |-> "Missing required fields"])
         ELSE NewReq("POST /markets/create", <<>>, b, "upsertUser")]
    /\ UNCHANGED store

PostCreateUpsertUser(s) ==
  LET r == req[s]
      called(f) == Outcome(r, "users.upsert", f)
      w == ToLower(r.body.walletAddress)
  IN
  /\ At(s, "POST /markets/create", "upsertUser")
  /\ \/ \E dflt \in BOOLEAN :
          LET after == UpsertUser(w, <<>>, dflt) IN
          /\ users' = after
          /\ req' = [req EXCEPT ![s] =
               Goto(called(FALSE), "createMarket", [user |-> SelectUserIdIn(after, w)])]
     \/ /\ users' = users
        /\ req' = [req EXCEPT ![s] =
             Respond(called(TRUE), 500, [error |-> "Database error"])]
  /\ OnlyUsers

\* mutant: the throw of createMarket swallowed, the handler going on to the
\* insert with a fabricated id as the agent endpoints do
PostCreateBlockchainFabricates(s, marketIds) ==
  LET r == req[s] IN
  /\ At(s, "POST /markets/create", "createMarket")
  /\ \E f \in BOOLEAN, marketId \in marketIds :
       req' = [req EXCEPT ![s] =
         Goto(Outcome(r, "blockchain.createMarket", f), "insert",
              [user |-> r.local.user, marketId |-> marketId])]
  /\ UNCHANGED store

\* blockchainService.createMarket throws, or returns one of marketIds
PostCreateBlockchain(s, marketIds) ==
  LET r == req[s]
      called(f) == Outcome(r, "blockchain.createMarket", f)
  IN
  /\ At(s, "POST /markets/create", "createMarket")
  /\ \/ req' = [req EXCEPT ![s] =
          Respond(called(TRUE), 500, [error |-> "Failed to create market on blockchain"])]
     \/ \E marketId \in marketIds :
          req' = [req EXCEPT ![s] =
            Goto(called(FALSE), "insert", [user |-> r.local.user, marketId |-> marketId])]
  /\ UNCHANGED store

\* the insert carries the id the chain gave: a row with that id already stored
\* is a key conflict; an error is only logged and the response is built from
\* the request
PostCreateInsert(s, cap) ==
  LET r == req[s]
      called(f) == Outcome(r, "markets.insert", f)
      question == r.body.question
      category == r.body.category
  IN
  /\ At(s, "POST /markets/create", "insert")
  /\ \E t \in Times :
       LET row == [id |-> r.local.marketId, question |-> question,
                   category |-> category, creator_id |-> r.local.user,
                   end_time |-> t + ParseInt(r.body.duration), resolved |-> FALSE]
       IN
       \/ /\ Len(markets) < cap
          /\ SelectMarketById(r.local.marketId) = 0
          /\ markets' = Append(markets, row)
          /\ req' = [req EXCEPT ![s] =
               Respond(called(FALSE), 200,
                       [marketId |-> r.local.marketId, market |-> row])]
       \/ /\ markets' = markets
          /\ req' = [req EXCEPT ![s] =
               Respond(called(TRUE), 200,
                       [marketId |-> r.local.marketId,
                        market |-> [id |-> r.local.marketId, question |-> question,
                                    category |-> category,
                                    endTime |-> t + ParseInt(r.body.duration),
                                    totalYes |-> "0", totalNo |-> "0",
                                    resolved |-> FALSE]])]
  /\ OnlyMarkets

----------------------------------------------------------------------------
(* markets.js: POST /api/markets/:id/bet *)

PostBet(s, ids, bodies) ==
  \E id \in ids, b \in bodies :
    /\ Free(s)
    /\ req' = [req EXCEPT ![s] =
         IF \/ Falsy(b.walletAddress)
            \/ Typeof(b.prediction) # "boolean"
            \/ Falsy(b.amount)
         THEN Respond(NewReq("POST /markets/:id/bet", [id |-> id], b, "recv"), 400,
                      [error |-> "Invalid bet parameters"])
         ELSE NewReq("POST /markets/:id/bet", [id |-> id], b, "upsertUser")]
    /\ UNCHANGED store

PostBetUpsertUser(s) ==
  LET r == req[s]
      called(f) == Outcome(r, "users.upsert", f)
      w == ToLower(r.body.walletAddress)
  IN
  /\ At(s, "POST /markets/:id/bet", "upsertUser")
  /\ \/ \E dflt \in BOOLEAN :
          LET after == UpsertUser(w, <<>>, dflt) IN
          /\ users' = after
          /\ req' = [req EXCEPT ![s] =
               Goto(called(FALSE), "placeBet", [user |-> SelectUserIdIn(after, w)])]
     \/ /\ users' = users
        /\ req' = [req EXCEPT ![s] =
             Respond(called(TRUE), 500, [error |-> "Database error"])]
  /\ OnlyUsers

\* blockchainService.placeBet throws, or returns one of txHashes
PostBetBlockchain(s, txHashes) ==
  LET r == req[s]
      called(f) == Outcome(r, "blockchain.placeBet", f)
  IN
  /\ At(s, "POST /markets/:id/bet", "placeBet")
  /\ \/ req' = [req EXCEPT ![s] =
          Respond(called(TRUE), 500, [error |-> "Failed to place bet on blockchain"])]
     \/ \E txHash \in txHashes :
          req' = [req EXCEPT ![s] =
            Goto(called(FALSE), "insert", [user |-> r.local.user, txHash |-> txHash])]
  /\ UNCHANGED store

\* mutant: an error of the trades insert answered 500
PostBetInsertFails(s, cap) ==
  LET r == req[s]
      called(f) == Outcome(r, "trades.insert", f)
      row == [user_id |-> r.local.user, market_id |-> ParseInt(r.params.id),
              prediction |-> JsBool(r.body.prediction), amount |-> r.body.amount,
              tx_hash |-> r.local.txHash]
  IN
  /\ At(s, "POST /markets/:id/bet", "insert")
  /\ \/ /\ Len(trades) < cap
        /\ trades' = Append(trades, row)
        /\ req' = [req EXCEPT ![s] =
             Respond(called(FALSE), 200, [txHash |-> r.local.txHash, trade |-> row])]
     \/ /\ trades' = trades
        /\ req' = [req EXCEPT ![s] =
             Respond(called(TRUE), 500, [error |-> "Failed to place bet"])]
  /\ OnlyTrades

\* an error of the insert is only logged and the response is built from the
\* request
PostBetInsert(s, cap) ==
  LET r == req[s]
      called(f) == Outcome(r, "trades.insert", f)
      row == [user_id |-> r.local.user, market_id |-> ParseInt(r.params.id),
              prediction |-> JsBool(r.body.prediction), amount |-> r.body.amount,
              tx_hash |-> r.local.txHash]
  IN
  /\ At(s, "POST /markets/:id/bet", "insert")
  /\ \/ /\ Len(trades) < cap
        /\ trades' = Append(trades, row)
        /\ req' = [req EXCEPT ![s] =
             Respond(called(FALSE), 200, [txHash |-> r.local.txHash, trade |-> row])]
     \/ /\ trades' = trades
        /\ req' = [req EXCEPT ![s] =
             Respond(called(TRUE), 200,
                     [txHash |-> r.local.txHash,
                      trade |-> [user_id |-> r.local.user,
                                 market_id |-> ParseInt(r.params.id),
                                 prediction |-> JsBool(r.body.prediction),
                                 amount |-> r.body.amount]])]
  /\ OnlyTrades

----------------------------------------------------------------------------
(* The store: table x402_agents. *)

\* mutant: the ownership predicate .eq('user_id', uid) left out
SelectAgentById(id, uid) ==
  IF id \in DOMAIN x402_agents THEN id ELSE 0

\* .from('x402_agents').select('*').eq('id', id).eq('user_id', uid).single()
SelectAgentOwned(id, uid) ==
  IF id \in DOMAIN x402_agents /\ x402_agents[id].user_id = uid THEN id ELSE 0

\* .eq('user_id', uid), newest first
SelectAgentsOf(uid) ==
  LET ids == SelectSeq([i \in DOMAIN x402_agents |-> i],
                       LAMBDA i : x402_agents[i].user_id = uid)
  IN [k \in DOMAIN ids |-> ids[Len(ids) + 1 - k]]

\* .eq('agent_address', a).single(): exactly one row, else an error
SelectAgentByAddress(a) ==
  LET ids == {i \in DOMAIN x402_agents : x402_agents[i].agent_address = a} IN
  IF Cardinality(ids) = 1 THEN CHOOSE i \in ids : TRUE ELSE 0

----------------------------------------------------------------------------
(* x402.js: POST /api/x402/agent/create *)

PostAgentCreate(s, bodies) ==
  \E b \in bodies :
    /\ Free(s)
    /\ req' = [req EXCEPT ![s] =
         IF \/ Falsy(b.followerAddress) \/ Falsy(b.traderAddress)
            \/ Falsy(b.maxPerTrade) \/ Falsy(b.totalLimit)
         THEN Respond(NewReq("POST /x402/agent/create", <<>>, b, "recv"), 400,
                      [error |-> "Missing required fields"])
         ELSE NewReq("POST /x402/agent/create", <<>>, b, "upsertFollower")]
    /\ UNCHANGED store

PostAgentCreateUpsertFollower(s) ==
  LET r == req[s] IN
  /\ At(s, "POST /x402/agent/create", "upsertFollower")
  /\ \E fault \in BOOLEAN, dflt \in BOOLEAN :
       LET w == ToLower(r.body.followerAddress)
           after == IF fault THEN users ELSE UpsertUser(w, <<>>, dflt)
       IN
       /\ users' = after
       /\ req' = [req EXCEPT ![s] =
            Goto(Outcome(r, "users.upsert", fault), "upsertTrader",
                 [follower |-> IF fault THEN 0 ELSE SelectUserIdIn(after, w)])]
  /\ OnlyUsers

PostAgentCreateUpsertTrader(s) ==
  LET r == req[s] IN
  /\ At(s, "POST /x402/agent/create", "upsertTrader")
  /\ \E fault \in BOOLEAN, dflt \in BOOLEAN :
       LET w == ToLower(r.body.traderAddress)
           after == IF fault THEN users ELSE UpsertUser(w, <<TRUE>>, dflt)
           called(f) == Outcome(r, "users.upsert", f)
       IN
       /\ users' = after
       /\ req' = [req EXCEPT ![s] =
            IF r.local.follower = 0 \/ fault
            THEN Respond(called(fault), 500, [error |-> "Database error"])
            ELSE Goto(called(fault), "createAgent",
                      [follower |-> r.local.follower,
                       trader |-> SelectUserIdIn(after, w)])]
  /\ OnlyUsers

\* x402Service.createCopyTradingAgent returns one of results, or throws: the
\* inner catch then answers with a mock agent and nothing is stored
PostAgentCreateX402(s, results, randoms) ==
  LET r == req[s]
      called(f) == Outcome(r, "x402.createCopyTradingAgent", f)
  IN
  /\ At(s, "POST /x402/agent/create", "createAgent")
  /\ \/ \E agentResult \in results :
          req' = [req EXCEPT ![s] =
            Goto(called(FALSE), "insert",
                 [follower |-> r.local.follower, trader |-> r.local.trader,
                  agentResult |-> agentResult])]
     \/ \E random \in randoms :
          req' = [req EXCEPT ![s] =
            Respond(called(TRUE), 200,
                    [id |-> 0, agentAddress |-> random.agentAddress,
                     traderAddress |-> r.body.traderAddress,
                     followerAddress |-> r.body.followerAddress,
                     active |-> TRUE, txHash |-> random.txHash, demo |-> TRUE])]
  /\ UNCHANGED store

\* an error of the insert is only logged; the id of the response is then
\* Date.now(), the id of no row (0 here)
PostAgentCreateInsert(s, cap) ==
  LET r == req[s]
      called(f) == Outcome(r, "x402_agents.insert", f)
      row == [user_id |-> r.local.follower, trader_id |-> r.local.trader,
              agent_address |-> r.local.agentResult.agentAddress,
              max_per_trade |-> ParseFloat(r.body.maxPerTrade),
              total_limit |-> ParseFloat(r.body.totalLimit),
              categories |-> OrElse(r.body.categories, <<>>),
              active |-> TRUE, tx_hash |-> r.local.agentResult.txHash,
              authorized_amount |-> <<>>, authorized_at |-> <<>>, updated_at |-> <<>>]
      agent(id) == [id |-> id, agentAddress |-> r.local.agentResult.agentAddress,
                    traderAddress |-> r.body.traderAddress,
                    followerAddress |-> r.body.followerAddress,
                    active |-> TRUE, txHash |-> r.local.agentResult.txHash,
                    demo |-> FALSE]
  IN
  /\ At(s, "POST /x402/agent/create", "insert")
  /\ \/ /\ Len(x402_agents) < cap
        /\ x402_agents' = Append(x402_agents, row)
        /\ req' = [req EXCEPT ![s] =
             Respond(called(FALSE), 200, agent(Len(x402_agents) + 1))]
     \/ /\ x402_agents' = x402_agents
        /\ req' = [req EXCEPT ![s] = Respond(called(TRUE), 200, agent(0))]
  /\ OnlyAgents

----------------------------------------------------------------------------
(* x402.js: GET /api/x402/agents/:walletAddress *)

GetAgents(s, addresses) ==
  \E w \in addresses :
    /\ Free(s)
    /\ req' = [req EXCEPT ![s] =
         NewReq("GET /x402/agents/:walletAddress", [walletAddress |-> w], <<>>,
                "selectUser")]
    /\ UNCHANGED store

GetAgentsSelectUser(s) ==
  LET r == req[s]
      called(f) == Outcome(r, "users.select", f)
  IN
  /\ At(s, "GET /x402/agents/:walletAddress", "selectUser")
  /\ \E fault \in BOOLEAN :
       LET user == IF fault THEN 0 ELSE SelectUserId(ToLower(r.params.walletAddress)) IN
       req' = [req EXCEPT ![s] =
         IF user = 0
         THEN Respond(called(fault), 200, [agents |-> <<>>])
         ELSE Goto(called(fault), "selectAgents", [user |-> user])]
  /\ UNCHANGED store

\* mutant: the error of the select is only logged and the handler ends
\* there
GetAgentsSelectAgentsSilent(s) ==
  LET r == req[s]
      called(f) == Outcome(r, "x402_agents.select", f)
      ids == SelectAgentsOf(r.local.user)
  IN
  /\ At(s, "GET /x402/agents/:walletAddress", "selectAgents")
  /\ \E fault \in BOOLEAN :
       req' = [req EXCEPT ![s] =
         IF fault
         THEN Goto(called(fault), "ended", <<>>)
         ELSE Goto(called(fault), "getAgentStatus",
                   [agents |-> [k \in DOMAIN ids |->
                      [id |-> ids[k],
                       agentAddress |-> x402_agents[ids[k]].agent_address,
                       traderAddress |->
                         users[x402_agents[ids[k]].trader_id].wallet_address,
                       active |-> x402_agents[ids[k]].active]]])]
  /\ UNCHANGED store

GetAgentsSelectAgents(s) ==
  LET r == req[s]
      called(f) == Outcome(r, "x402_agents.select", f)
      ids == SelectAgentsOf(r.local.user)
  IN
  /\ At(s, "GET /x402/agents/:walletAddress", "selectAgents")
  /\ \E fault \in BOOLEAN :
       req' = [req EXCEPT ![s] =
         IF fault
         THEN Respond(called(fault), 500, [error |-> "Failed to fetch agents"])
         ELSE Goto(called(fault), "getAgentStatus",
                   [agents |-> [k \in DOMAIN ids |->
                      [id |-> ids[k],
                       agentAddress |-> x402_agents[ids[k]].agent_address,
                       traderAddress |->
                         users[x402_agents[ids[k]].trader_id].wallet_address,
                       active |-> x402_agents[ids[k]].active]]])]
  /\ UNCHANGED store

\* Promise.all over x402Service.getAgentStatus: each call returns one of
\* statuses, or throws and leaves the status built from the row
GetAgentsStatus(s, statuses) ==
  LET r == req[s]
      agents == r.local.agents
  IN
  /\ At(s, "GET /x402/agents/:walletAddress", "getAgentStatus")
  /\ \E got \in [DOMAIN agents -> statuses \cup {"throws"}] :
       LET faulted == \E k \in DOMAIN agents : got[k] = "throws"
           status(k) == IF got[k] = "throws" THEN agents[k].active
                        ELSE got[k] = "active"
       IN
       req' = [req EXCEPT ![s] =
         Respond(Outcome(r, "x402.getAgentStatus", faulted), 200,
                 [agents |-> [k \in DOMAIN agents |->
                    [agents[k] EXCEPT !.active = status(k)]]])]
  /\ UNCHANGED store

----------------------------------------------------------------------------
(* x402.js: POST /api/x402/agent/:id/authorize *)

PostAuthorize(s, ids, bodies) ==
  \E id \in ids, b \in bodies :
    /\ Free(s)
    /\ req' = [req EXCEPT ![s] =
         IF Falsy(b.walletAddress) \/ Falsy(b.spendingLimit)
         THEN Respond(NewReq("POST /x402/agent/:id/authorize", [id |-> id], b, "recv"),
                      400, [error |-> "Wallet address and spending limit required"])
         ELSE NewReq("POST /x402/agent/:id/authorize", [id |-> id], b, "selectUser")]
    /\ UNCHANGED store

PostAuthorizeSelectUser(s) ==
  LET r == req[s]
      called(f) == Outcome(r, "users.select", f)
  IN
  /\ At(s, "POST /x402/agent/:id/authorize", "selectUser")
  /\ \E fault \in BOOLEAN :
       LET user == IF fault THEN 0 ELSE SelectUserId(ToLower(r.body.walletAddress)) IN
       req' = [req EXCEPT ![s] =
         IF user = 0
         THEN Respond(called(fault), 404, [error |-> "User not found"])
         ELSE Goto(called(fault), "selectAgent", [user |-> user])]
  /\ UNCHANGED store

PostAuthorizeSelectAgent(s) ==
  LET r == req[s]
      called(f) == Outcome(r, "x402_agents.select", f)
  IN
  /\ At(s, "POST /x402/agent/:id/authorize", "selectAgent")
  /\ \E fault \in BOOLEAN :
       LET agent == IF fault THEN 0
                    ELSE SelectAgentOwned(ParseInt(r.params.id), r.local.user)
       IN
       req' = [req EXCEPT ![s] =
         IF agent = 0
         THEN Respond(called(fault), 404, [error |-> "Agent not found"])
         ELSE Goto(called(fault), "authorize",
                   [agentAddress |-> x402_agents[agent].agent_address])]
  /\ UNCHANGED store

\* x402Service.authorizeAgentSpending returns one of txHashes, or throws: the
\* inner catch then answers with a demo authorization and nothing is stored
PostAuthorizeX402(s, txHashes, randoms) ==
  LET r == req[s]
      called(f) == Outcome(r, "x402.authorizeAgentSpending", f)
  IN
  /\ At(s, "POST /x402/agent/:id/authorize", "authorize")
  /\ \/ \E txHash \in txHashes :
          req' = [req EXCEPT ![s] =
            Goto(called(FALSE), "update",
                 [agentAddress |-> r.local.agentAddress, txHash |-> txHash])]
     \/ \E random \in randoms :
          req' = [req EXCEPT ![s] =
            Respond(called(TRUE), 200,
                    [authorizationTx |-> random.txHash,
                     spendingLimit |-> r.body.spendingLimit,
                     agentAddress |-> r.local.agentAddress, demo |-> TRUE])]
  /\ UNCHANGED store

\* mutant: the update stamps authorized_at and leaves the amount out
PostAuthorizeUpdateStamps(s, times) ==
  LET r == req[s]
      id == ParseInt(r.params.id)
  IN
  /\ At(s, "POST /x402/agent/:id/authorize", "update")
  /\ \E fault \in BOOLEAN, t \in times :
       /\ x402_agents' =
            IF fault THEN x402_agents
            ELSE [x402_agents EXCEPT ![id].authorized_at = <<t>>]
       /\ req' = [req EXCEPT ![s] =
            Respond(Outcome(r, "x402_agents.update", fault), 200,
                    [authorizationTx |-> r.local.txHash,
                     spendingLimit |-> r.body.spendingLimit,
                     agentAddress |-> r.local.agentAddress, demo |-> FALSE])]
  /\ OnlyAgents

\* .update({authorized_amount, authorized_at}).eq('id', id); an error is only
\* logged
PostAuthorizeUpdate(s, times) ==
  LET r == req[s]
      called(f) == Outcome(r, "x402_agents.update", f)
      id == ParseInt(r.params.id)
  IN
  /\ At(s, "POST /x402/agent/:id/authorize", "update")
  /\ \E fault \in BOOLEAN, t \in times :
       /\ x402_agents' =
            IF fault THEN x402_agents
            ELSE [x402_agents EXCEPT
                    ![id].authorized_amount = <<ParseFloat(r.body.spendingLimit)>>,
                    ![id].authorized_at = <<t>>]
       /\ req' = [req EXCEPT ![s] =
            Respond(called(fault), 200,
                    [authorizationTx |-> r.local.txHash,
                     spendingLimit |-> r.body.spendingLimit,
                     agentAddress |-> r.local.agentAddress, demo |-> FALSE])]
  /\ OnlyAgents

----------------------------------------------------------------------------
(* x402.js: POST /api/x402/agent/:id/toggle *)

\* mutant: the check of walletAddress left out
PostToggleUnchecked(s, ids, bodies) ==
  \E id \in ids, b \in bodies :
    /\ Free(s)
    /\ req' = [req EXCEPT ![s] =
         NewReq("POST /x402/agent/:id/toggle", [id |-> id], b, "selectUser")]
    /\ UNCHANGED store

PostToggle(s, ids, bodies) ==
  \E id \in ids, b \in bodies :
    /\ Free(s)
    /\ req' = [req EXCEPT ![s] =
         IF Falsy(b.walletAddress)
         THEN Respond(NewReq("POST /x402/agent/:id/toggle", [id |-> id], b, "recv"),
                      400, [error |-> "Wallet address required"])
         ELSE NewReq("POST /x402/agent/:id/toggle", [id |-> id], b, "selectUser")]
    /\ UNCHANGED store

PostToggleSelectUser(s) ==
  LET r == req[s]
      called(f) == Outcome(r, "users.select", f)
  IN
  /\ At(s, "POST /x402/agent/:id/toggle", "selectUser")
  /\ \E fault \in BOOLEAN :
       LET user == IF fault THEN 0 ELSE SelectUserId(ToLower(r.body.walletAddress)) IN
       req' = [req EXCEPT ![s] =
         IF user = 0
         THEN Respond(called(fault), 404, [error |-> "User not found"])
         ELSE Goto(called(fault), "selectAgent", [user |-> user])]
  /\ UNCHANGED store

PostToggleSelectAgent(s) ==
  LET r == req[s]
      called(f) == Outcome(r, "x402_agents.select", f)
  IN
  /\ At(s, "POST /x402/agent/:id/toggle", "selectAgent")
  /\ \E fault \in BOOLEAN :
       LET agent == IF fault THEN 0
                    ELSE SelectAgentOwned(ParseInt(r.params.id), r.local.user)
       IN
       req' = [req EXCEPT ![s] =
         IF agent = 0
         THEN Respond(called(fault), 404, [error |-> "Agent not found"])
         ELSE Goto(called(fault), "toggle", <<>>)]
  /\ UNCHANGED store

\* x402Service.toggleAgent returns one of txHashes, or throws: the inner catch
\* then answers with a demo response and nothing is stored
PostToggleX402(s, txHashes, randoms) ==
  LET r == req[s]
      called(f) == Outcome(r, "x402.toggleAgent", f)
  IN
  /\ At(s, "POST /x402/agent/:id/toggle", "toggle")
  /\ \/ \E txHash \in txHashes :
          req' = [req EXCEPT ![s] = Goto(called(FALSE), "update", [txHash |-> txHash])]
     \/ \E random \in randoms :
          req' = [req EXCEPT ![s] =
            Respond(called(TRUE), 200,
                    [agentId |-> ParseInt(r.params.id), active |-> r.body.active,
                     toggleTx |-> random.txHash, demo |-> TRUE])]
  /\ UNCHANGED store

\* .update({active, updated_at}).eq('id', id): an undefined `active` is not
\* sent, and the column keeps its value; an error is only logged
PostToggleUpdate(s, times) ==
  LET r == req[s]
      called(f) == Outcome(r, "x402_agents.update", f)
      id == ParseInt(r.params.id)
  IN
  /\ At(s, "POST /x402/agent/:id/toggle", "update")
  /\ \E fault \in BOOLEAN, t \in times :
       /\ x402_agents' =
            IF fault THEN x402_agents
            ELSE [x402_agents EXCEPT
                    ![id].active = IF r.body.active = "undefined" THEN @
                                   ELSE JsBool(r.body.active),
                    ![id].updated_at = <<t>>]
       /\ req' = [req EXCEPT ![s] =
            Respond(called(fault), 200,
                    [agentId |-> id, active |-> r.body.active,
                     toggleTx |-> r.local.txHash, demo |-> FALSE])]
  /\ OnlyAgents

----------------------------------------------------------------------------
(* x402.js: GET /api/x402/agent/:id/executions *)

GetAgentExecutions(s, ids, addresses) ==
  \E id \in ids, w \in addresses :
    /\ Free(s)
    /\ req' = [req EXCEPT ![s] =
         IF Falsy(w)
         THEN Respond(NewReq("GET /x402/agent/:id/executions",
                             [id |-> id, walletAddress |-> w], <<>>, "recv"), 400,
                      [error |-> "Wallet address required"])
         ELSE NewReq("GET /x402/agent/:id/executions",
                     [id |-> id, walletAddress |-> w], <<>>, "selectUser")]
    /\ UNCHANGED store

GetAgentExecutionsSelectUser(s) ==
  LET r == req[s]
      called(f) == Outcome(r, "users.select", f)
  IN
  /\ At(s, "GET /x402/agent/:id/executions", "selectUser")
  /\ \E fault \in BOOLEAN :
       LET user == IF fault THEN 0 ELSE SelectUserId(ToLower(r.params.walletAddress)) IN
       req' = [req EXCEPT ![s] =
         IF user = 0
         THEN Respond(called(fault), 404, [error |-> "User not found"])
         ELSE Goto(called(fault), "selectAgent", [user |-> user])]
  /\ UNCHANGED store

GetAgentExecutionsSelectAgent(s) ==
  LET r == req[s]
      called(f) == Outcome(r, "x402_agents.select", f)
  IN
  /\ At(s, "GET /x402/agent/:id/executions", "selectAgent")
  /\ \E fault \in BOOLEAN :
       LET agent == IF fault THEN 0
                    ELSE SelectAgentOwned(ParseInt(r.params.id), r.local.user)
       IN
       req' = [req EXCEPT ![s] =
         IF agent = 0
         THEN Respond(called(fault), 404, [error |-> "Agent not found"])
         ELSE Goto(called(fault), "getAgentExecutions",
                   [agentAddress |-> x402_agents[agent].agent_address])]
  /\ UNCHANGED store

\* x402Service.getAgentExecutions returns one of lists, or throws: the inner
\* catch then answers with the two demo executions
GetAgentExecutionsX402(s, lists) ==
  LET r == req[s]
      called(f) == Outcome(r, "x402.getAgentExecutions", f)
      id == ParseInt(r.params.id)
  IN
  /\ At(s, "GET /x402/agent/:id/executions", "getAgentExecutions")
  /\ \/ \E list \in lists :
          req' = [req EXCEPT ![s] =
            Respond(called(FALSE), 200,
                    [agentId |-> id, agentAddress |-> r.local.agentAddress,
                     executions |-> list, demo |-> FALSE])]
     \/ req' = [req EXCEPT ![s] =
          Respond(called(TRUE), 200,
                  [agentId |-> id, agentAddress |-> r.local.agentAddress,
                   executions |-> <<"demo execution 1", "demo execution 2">>,
                   demo |-> TRUE])]
  /\ UNCHANGED store

----------------------------------------------------------------------------
(* x402.js: POST /api/x402/webhook/execution *)

PostWebhook(s, bodies) ==
  \E b \in bodies :
    /\ Free(s)
    /\ req' = [req EXCEPT ![s] =
         IF FalsyText(b.agentAddress) \/ Falsy(b.executionData)
         THEN Respond(NewReq("POST /x402/webhook/execution", <<>>, b, "recv"), 400,
                      [error |-> "Invalid webhook data"])
         ELSE NewReq("POST /x402/webhook/execution", <<>>, b, "selectAgent")]
    /\ UNCHANGED store

PostWebhookSelectAgent(s) ==
  LET r == req[s]
      called(f) == Outcome(r, "x402_agents.select", f)
  IN
  /\ At(s, "POST /x402/webhook/execution", "selectAgent")
  /\ \E fault \in BOOLEAN :
       LET agent == IF fault THEN 0 ELSE SelectAgentByAddress(r.body.agentAddress) IN
       req' = [req EXCEPT ![s] =
         IF agent = 0
         THEN Respond(called(fault), 404, [error |-> "Agent not found"])
         ELSE Goto(called(fault), "insert", [agent |-> agent])]
  /\ UNCHANGED store

\* an error of the insert is only logged
PostWebhookInsert(s, cap) ==
  LET r == req[s]
      called(f) == Outcome(r, "agent_executions.insert", f)
      row == [agent_id |-> r.local.agent, tx_hash |-> r.body.executionData[1].txHash]
      res == [message |-> "Execution recorded successfully",
              agentAddress |-> r.body.agentAddress]
  IN
  /\ At(s, "POST /x402/webhook/execution", "insert")
  /\ \/ /\ Len(agent_executions) < cap
        /\ agent_executions' = Append(agent_executions, row)
        /\ req' = [req EXCEPT ![s] = Respond(called(FALSE), 200, res)]
     \/ /\ agent_executions' = agent_executions
        /\ req' = [req EXCEPT ![s] = Respond(called(TRUE), 200, res)]
  /\ OnlyExecutions

----------------------------------------------------------------------------
(* The copy-trades router under concurrent requests. *)

Addr_a == <<"a">>
Addr_A == <<"A">>
Addr_b == <<"b">>

CopyIds == {<<"1">>}

CopyPostBodies ==
  [followerAddress : {Addr_a}, traderAddress : {Addr_b},
   amount : {<<"1", "0">>, <<>>}, categories : {<<>>}, maxTrades : {<<>>}]

CopyPutBodies ==
  [walletAddress : {Addr_a, Addr_A, Addr_b, <<>>}, amount : {<<>>},
   categories : {<<>>}, maxTrades : {<<>>}, active : {"false"}]
  \cup
  [walletAddress : {Addr_a, Addr_A, Addr_b}, amount : {<< <<"2", "0">> >>},
   categories : {<< <<"sports">> >>}, maxTrades : {<<3>>}, active : {"true"}]

EmptyStore ==
  /\ users = <<>>
  /\ traders = <<>>
  /\ markets = <<>>
  /\ trades = <<>>
  /\ copy_trades = <<>>
  /\ x402_agents = <<>>
  /\ agent_executions = <<>>

Init ==
  /\ EmptyStore
  /\ req = [s \in Connections |-> Idle]

Next ==
  \E s \in DOMAIN req :
    \/ PostCopyTrade(s, CopyPostBodies)
    \/ PostCopyTradeUpsertFollower(s)
    \/ PostCopyTradeUpsertTrader(s)
    \/ PostCopyTradeInsert(s, MaxCopyTrades)
    \/ GetUserCopyTrades(s, {Addr_a}, {"undefined", "followers"})
    \/ GetUserCopyTradesSelectUser(s)
    \/ GetUserCopyTradesSelect(s)
    \/ PutCopyTrade(s, CopyIds, CopyPutBodies)
    \/ PutCopyTradeSelectUser(s)
    \/ PutCopyTradeSelectExisting(s)
    \/ PutCopyTradeUpdate(s, WriteTimes)
    \/ DeleteCopyTrade(s, CopyIds, {Addr_a, Addr_b, <<>>})
    \/ DeleteCopyTradeSelectUser(s)
    \/ DeleteCopyTradeUpdate(s, WriteTimes)

Spec == Init /\ [][Next]_vars

----------------------------------------------------------------------------
(* Claims on the copy-trades router. *)

\* slot s takes a step of a request of this kind (its first step included)
Steps(s, kind) == req'[s].kind = kind /\ req'[s] # req[s]

\* the response sent by the step of slot s, if it sends one
Sends(s, status) == req'[s].pc = "done" /\ req'[s].status = status

\* address w resolves to the User that row id of copy_trades has as follower
ResolvesToFollower(w, id) ==
  /\ id \in DOMAIN copy_trades
  /\ SelectUserId(ToLower(w)) = copy_trades[id].follower_id

\* C1: a PUT /api/copy-trades/:id on an existing row, from a wallet address
\* that does not resolve to the row's follower (an address with no User row
\* included), changes no field of any copy-trade row in any of its steps, and
\* the response it sends is 404, whatever the other connection does meanwhile.
C1_NonOwnerPutIs404 ==
  [][\A s \in DOMAIN req :
       LET r == req'[s]
           id == ParseInt(r.params.id)
       IN
       (/\ Steps(s, "PUT /copy-trades/:id")
        /\ ~Falsy(r.body.walletAddress)
        /\ id \in DOMAIN copy_trades
        /\ ~ResolvesToFollower(r.body.walletAddress, id))
       => /\ copy_trades' = copy_trades
          /\ req'[s].pc = "done" => req'[s].status = 404]_vars

\* a PUT from an existing User who is not the follower of the existing row was
\* answered 404 by the ownership query
C1_Witness ==
  \E s \in DOMAIN req :
    LET r == req[s]
        id == ParseInt(r.params.id)
    IN
    /\ r.kind = "PUT /copy-trades/:id"
    /\ r.pc = "done"
    /\ r.status = 404
    /\ r.calls = <<"users.select", "copy_trades.select">>
    /\ r.faults = <<>>
    /\ id \in DOMAIN copy_trades
    /\ SelectUserId(ToLower(r.body.walletAddress)) # 0
    /\ ~ResolvesToFollower(r.body.walletAddress, id)

\* C2: no step removes a copy-trade row or changes its follower; the step in
\* which DELETE /api/copy-trades/:id answers 200 leaves the row stored with
\* active = false; an inactive row becomes active again only by the update
\* of a PUT with active = true from the row's follower; and a 200 response of
\* GET /api/copy-trades/user/:address (type following) lists no row that is
\* inactive when it is queried.
C2_DeleteDeactivates ==
  [][/\ Len(copy_trades') >= Len(copy_trades)
     /\ \A i \in DOMAIN copy_trades :
          /\ copy_trades'[i].follower_id = copy_trades[i].follower_id
          /\ (~copy_trades[i].active /\ copy_trades'[i].active)
             => \E s \in DOMAIN req :
                  /\ At(s, "PUT /copy-trades/:id", "update")
                  /\ Sends(s, 200)
                  /\ ParseInt(req[s].params.id) = i
                  /\ req[s].body.active = "true"
                  /\ ResolvesToFollower(req[s].body.walletAddress, i)
     /\ \A s \in DOMAIN req :
          /\ (Steps(s, "DELETE /copy-trades/:id") /\ Sends(s, 200))
             => LET id == ParseInt(req'[s].params.id) IN
                /\ id \in DOMAIN copy_trades'
                /\ ~copy_trades'[id].active
                /\ ResolvesToFollower(req'[s].body.walletAddress, id)
          /\ (/\ Steps(s, "GET /copy-trades/user/:address")
              /\ Sends(s, 200)
              /\ req'[s].params.type # "followers")
             => \A k \in DOMAIN req'[s].res.copyTrades :
                  LET id == req'[s].res.copyTrades[k].id IN
                  /\ copy_trades[id].active
                  /\ ResolvesToFollower(req'[s].params.address, id)]_vars

\* a DELETE by the follower was answered 200, the row is stored inactive, and
\* a GET for the same follower found the User and listed nothing
C2_Witness ==
  \E s, g \in DOMAIN req :
    LET id == ParseInt(req[s].params.id) IN
    /\ req[s].kind = "DELETE /copy-trades/:id"
    /\ req[s].pc = "done"
    /\ req[s].status = 200
    /\ id \in DOMAIN copy_trades
    /\ ~copy_trades[id].active
    /\ req[g].kind = "GET /copy-trades/user/:address"
    /\ req[g].pc = "done"
    /\ req[g].status = 200
    /\ req[g].params.type = "undefined"
    /\ req[g].calls = <<"users.select", "copy_trades.select">>
    /\ req[g].faults = <<>>
    /\ ResolvesToFollower(req[g].params.address, id)
    /\ req[g].res.copyTrades = <<>>

----------------------------------------------------------------------------
(* The ownership-gated operations of both routers, on rows that POST
   /api/copy-trades and POST /api/x402/agent/create have stored. *)

MaxAgents == 1

GatedIds == {<<"1">>, <<"2">>}

GatedCopyBodies ==
  [followerAddress : {Addr_a}, traderAddress : {Addr_b},
   amount : {<<"1", "0">>}, categories : {<<>>}, maxTrades : {<<>>}]

AgentCreateBodies ==
  [followerAddress : {Addr_a}, traderAddress : {Addr_b},
   maxPerTrade : {<<"5">>, <<>>}, totalLimit : {<<"9">>}, categories : {<<>>}]

\* what x402Service.createCopyTradingAgent resolves to
AgentResults == {[agentAddress |-> "0xagent", txHash |-> "0xcreate"]}

\* what the Math.random() expressions of the demo responses evaluate to
Randoms == {[agentAddress |-> "0xrandom", txHash |-> "0xrandomtx"]}

AuthorizeBodies ==
  [walletAddress : {Addr_a, Addr_b, <<>>}, spendingLimit : {<<"7">>}]

ToggleBodies ==
  [walletAddress : {Addr_a, Addr_b}, active : {"false", "true"}]
  \cup [walletAddress : {<<>>}, active : {"undefined"}]

InitGated ==
  /\ EmptyStore
  /\ req = [s \in {1} |-> Idle]

NextGated ==
  \E s \in DOMAIN req :
    \/ PostCopyTrade(s, GatedCopyBodies)
    \/ PostCopyTradeUpsertFollower(s)
    \/ PostCopyTradeUpsertTrader(s)
    \/ PostCopyTradeInsert(s, MaxCopyTrades)
    \/ PostAgentCreate(s, AgentCreateBodies)
    \/ PostAgentCreateUpsertFollower(s)
    \/ PostAgentCreateUpsertTrader(s)
    \/ PostAgentCreateX402(s, AgentResults, Randoms)
    \/ PostAgentCreateInsert(s, MaxAgents)
    \/ DeleteCopyTrade(s, GatedIds, {Addr_a, Addr_b, <<>>})
    \/ DeleteCopyTradeSelectUser(s)
    \/ DeleteCopyTradeUpdate(s, WriteTimes)
    \/ GetCopyTradeExecutions(s, GatedIds, {Addr_a, Addr_b, <<>>})
    \/ GetCopyTradeExecutionsSelectUser(s)
    \/ GetCopyTradeExecutionsSelectCopyTrade(s)
    \/ GetCopyTradeExecutionsSelect(s)
    \/ PostAuthorize(s, GatedIds, AuthorizeBodies)
    \/ PostAuthorizeSelectUser(s)
    \/ PostAuthorizeSelectAgent(s)
    \/ PostAuthorizeX402(s, {"0xauthorize"}, Randoms)
    \/ PostAuthorizeUpdate(s, WriteTimes)
    \/ PostToggle(s, GatedIds, ToggleBodies)
    \/ PostToggleSelectUser(s)
    \/ PostToggleSelectAgent(s)
    \/ PostToggleX402(s, {"0xtoggle"}, Randoms)
    \/ PostToggleUpdate(s, WriteTimes)
    \/ GetAgentExecutions(s, GatedIds, {Addr_a, Addr_b, <<>>})
    \/ GetAgentExecutionsSelectUser(s)
    \/ GetAgentExecutionsSelectAgent(s)
    \/ GetAgentExecutionsX402(s, {<<>>, <<"execution">>})

SpecGated == InitGated /\ [][NextGated]_vars

----------------------------------------------------------------------------
(* Claims on the ownership-gated operations. *)

\* the awaited calls that go to the x402 service
X402Service ==
  {"x402.createCopyTradingAgent", "x402.getAgentStatus",
   "x402.authorizeAgentSpending", "x402.toggleAgent", "x402.getAgentExecutions"}

NoX402Call(r) == \A k \in DOMAIN r.calls : r.calls[k] \notin X402Service

\* a copy-trade row with this id whose follower is uid
CopyTradeUnderJointFilter(id, uid) ==
  id \in DOMAIN copy_trades /\ copy_trades[id].follower_id = uid

\* an agent row with this id whose owner is uid
AgentUnderJointFilter(id, uid) ==
  id \in DOMAIN x402_agents /\ x402_agents[id].user_id = uid

\* slot s is at the store operation that carries the joint filter
AtJointFilter(s) ==
  \/ At(s, "DELETE /copy-trades/:id", "update")
  \/ At(s, "GET /copy-trades/:id/executions", "selectCopyTrade")
  \/ At(s, "POST /x402/agent/:id/authorize", "selectAgent")
  \/ At(s, "POST /x402/agent/:id/toggle", "selectAgent")
  \/ At(s, "GET /x402/agent/:id/executions", "selectAgent")

TargetUnderJointFilter(s) ==
  LET id == ParseInt(req[s].params.id)
      uid == req[s].local.user
  IN IF req[s].kind \in {"DELETE /copy-trades/:id", "GET /copy-trades/:id/executions"}
     THEN CopyTradeUnderJointFilter(id, uid)
     ELSE AgentUnderJointFilter(id, uid)

\* C3: when one of the five ownership-gated operations runs its jointly
\* filtered store operation (id AND owner = the caller's User id) and no row
\* is under that filter, also when a row with that id is stored under another
\* owner, that step sends 404, the request has made no x402 call, and the
\* step modifies no row of the store.
C3_NoRowUnderJointFilterIs404 ==
  [][\A s \in DOMAIN req :
       (AtJointFilter(s) /\ req'[s] # req[s] /\ ~TargetUnderJointFilter(s))
       => /\ Sends(s, 404)
          /\ NoX402Call(req'[s])
          /\ store' = store]_vars

\* POST /api/x402/agent/1/authorize from an existing User who does not own the
\* stored agent 1 was answered 404 by the ownership query, with no fault
C3_Witness ==
  \E s \in DOMAIN req :
    LET r == req[s] IN
    /\ r.kind = "POST /x402/agent/:id/authorize"
    /\ r.pc = "done"
    /\ r.status = 404
    /\ r.calls = <<"users.select", "x402_agents.select">>
    /\ r.faults = <<>>
    /\ ParseInt(r.params.id) \in DOMAIN x402_agents
    /\ SelectUserId(ToLower(r.body.walletAddress)) # 0
    /\ ~AgentUnderJointFilter(ParseInt(r.params.id),
                              SelectUserId(ToLower(r.body.walletAddress)))

----------------------------------------------------------------------------
(* The markets router under concurrent requests. *)

MaxMarkets == 1
MaxTrades == 1

\* what blockchainService.getActiveMarkets / getMarket resolve to
LiveMarket ==
  [id |-> 7, question |-> "Will the live market resolve?", category |-> "sports",
   totalYes |-> "1", totalNo |-> "2", resolved |-> FALSE]

CreateBodies ==
  [walletAddress : {Addr_a}, question : {"Will it rain?", ""},
   category : {"sports"}, duration : {<<"1">>}]

BetBodies ==
  [walletAddress : {Addr_a, <<>>},
   prediction : {"true", "false", "undefined", "null", "1", "'true'"},
   amount : {<<"5">>, <<>>}]

InitMarkets ==
  /\ EmptyStore
  /\ req = [s \in Connections |-> Idle]

NextMarkets ==
  \E s \in DOMAIN req :
    \/ GetActive(s, {<<>>, <<"finance">>}, {<<>>})
    \/ GetActiveBlockchain(s, {<<>>, <<LiveMarket>>})
    \/ GetActiveSelectMarkets(s)
    \/ GetMarket(s, {<<"1">>})
    \/ GetMarketBlockchain(s, {LiveMarket})
    \/ GetMarketSelectMarket(s)
    \/ GetMarketSelectTrades(s)
    \/ PostCreate(s, CreateBodies)
    \/ PostCreateUpsertUser(s)
    \/ PostCreateBlockchain(s, {1})
    \/ PostCreateInsert(s, MaxMarkets)
    \/ PostBet(s, {<<"1">>}, BetBodies)
    \/ PostBetUpsertUser(s)
    \/ PostBetBlockchain(s, {"0xbet"})
    \/ PostBetInsert(s, MaxTrades)

SpecMarkets == InitMarkets /\ [][NextMarkets]_vars

----------------------------------------------------------------------------
(* Claims on the markets router. *)

\* the body of a bet that the validation has to reject
InvalidBet(body) ==
  \/ body.walletAddress = <<>>
  \/ body.prediction \notin {"true", "false"}
  \/ body.amount = <<>>

\* C4: a POST /api/markets/:id/bet whose prediction is not a boolean, or whose
\* walletAddress or amount is missing, is answered 400 in its first step: the
\* request has made no call at all (no users upsert, no placeBet, no trades
\* insert), no table changes in that step, and the request takes no further
\* step.
C4_InvalidBetIs400 ==
  [][\A s \in DOMAIN req :
       (Steps(s, "POST /markets/:id/bet") /\ InvalidBet(req'[s].body))
       => /\ Free(s)
          /\ Sends(s, 400)
          /\ req'[s].calls = <<>>
          /\ store' = store]_vars

\* a bet with walletAddress and amount present and the string 'true' as its
\* prediction was answered 400 with no call made
C4_Witness ==
  \E s \in DOMAIN req :
    /\ req[s].kind = "POST /markets/:id/bet"
    /\ req[s].pc = "done"
    /\ req[s].status = 400
    /\ req[s].calls = <<>>
    /\ req[s].body.walletAddress # <<>>
    /\ req[s].body.amount # <<>>
    /\ req[s].body.prediction = "'true'"

----------------------------------------------------------------------------
(* The traders router under concurrent requests. *)

\* what substreamsService.getTraderLeaderboard / getTraderDetails resolve to
LiveTrader ==
  [address |-> <<"0", "x", "f">>, winRate |-> <<"50">>, totalTrades |-> <<"2">>,
   profitLoss |-> <<"1">>, totalVolume |-> <<"10">>, categories |-> <<"sports">>]

RegisterBodies ==
  [walletAddress : {Addr_a, Addr_A, <<>>}, isPublic : {"true", "false", "undefined"},
   categories : {<<>>, << <<"sports">> >>}]

InitTraders ==
  /\ EmptyStore
  /\ req = [s \in Connections |-> Idle]

NextTraders ==
  \E s \in DOMAIN req :
    \/ GetLeaderboard(s, {<<>>, <<"sports">>}, {<<>>})
    \/ GetLeaderboardSubstreams(s, {<<>>, <<LiveTrader>>})
    \/ GetLeaderboardSelectTraders(s)
    \/ GetTrader(s, {Addr_A})
    \/ GetTraderSubstreams(s, {LiveTrader})
    \/ GetTraderSelectTrader(s)
    \/ PostRegister(s, RegisterBodies)
    \/ PostRegisterUpsertUser(s)
    \/ PostRegisterUpsertTrader(s)
    \/ GetStats(s, {Addr_A})
    \/ GetStatsSubstreams(s, {LiveTrader})
    \/ GetStatsSelectTrader(s)

SpecTraders == InitTraders /\ [][NextTraders]_vars

----------------------------------------------------------------------------
(* Claims on registration. *)

\* the User rows stored for address w
UsersOf(tbl, w) == {i \in DOMAIN tbl : tbl[i].wallet_address = w}

\* the step of slot s is the users upsert of a register request, and succeeds
RegisterUpsertsUser(s) ==
  At(s, "POST /traders/register", "upsertUser") /\ req'[s].pc = "upsertTrader"

\* the step of slot s is the traders upsert of a register request, and succeeds
RegisterUpsertsTrader(s) ==
  At(s, "POST /traders/register", "upsertTrader") /\ Sends(s, 200)

\* the users upsert of a register request leaves exactly one User row for the
\* lowercased address, holding the flag of that request, and no other row
\* changes
LatestIsPublicPersists ==
  \A s \in DOMAIN req :
    RegisterUpsertsUser(s) =>
      LET w == ToLower(req[s].body.walletAddress) IN
      /\ Cardinality(UsersOf(users', w)) = 1
      /\ \A i \in UsersOf(users', w) :
           users'[i].is_public = (req[s].body.isPublic # "false")
      /\ \A i \in DOMAIN users : users[i].wallet_address # w => users'[i] = users[i]
      /\ Len(users') <= Len(users) + 1

\* the store already holds what the register request of slot s asks for: the
\* request repeats one that succeeded
RepeatsUser(s) ==
  \E i \in DOMAIN users :
    /\ users[i].wallet_address = ToLower(req[s].body.walletAddress)
    /\ users[i].is_public = (req[s].body.isPublic # "false")

RepeatsTrader(s) ==
  \E i \in DOMAIN traders :
    /\ traders[i].user_id = req[s].local.user
    /\ traders[i].categories = OrElse(req[s].body.categories, <<>>)

\* traders before and after differ in no column but updated_at
SameButUpdatedAt ==
  /\ DOMAIN traders' = DOMAIN traders
  /\ \A i \in DOMAIN traders :
       [traders'[i] EXCEPT !.updated_at = <<>>] = [traders[i] EXCEPT !.updated_at = <<>>]

\* C5 as the specification states it: two successful registrations of one
\* address leave one User row whose is_public is that of the later request,
\* and a repeated request changes nothing that is stored.
C5_RepeatChangesNothing ==
  [][/\ LatestIsPublicPersists
     /\ \A s \in DOMAIN req :
          /\ (RegisterUpsertsUser(s) /\ RepeatsUser(s)) => store' = store
          /\ (RegisterUpsertsTrader(s) /\ RepeatsTrader(s)) => store' = store]_vars

\* C5: two successful registrations of one address leave one User row whose
\* is_public is that of the later request; a repeated request changes no User
\* row and no column of the Trader Profile except updated_at, which the
\* traders upsert sets to the instant of the request.
C5_RepeatRefreshesUpdatedAt ==
  [][/\ LatestIsPublicPersists
     /\ \A s \in DOMAIN req :
          /\ (RegisterUpsertsUser(s) /\ RepeatsUser(s)) => store' = store
          /\ (RegisterUpsertsTrader(s) /\ RepeatsTrader(s))
             => /\ SameButUpdatedAt
                /\ OnlyTraders]_vars

\* two registrations of one address, one with isPublic true and one with
\* isPublic false, have both succeeded, and the one User row holds a flag
C5_Witness ==
  \E s, g \in DOMAIN req :
    /\ req[s].kind = "POST /traders/register" /\ req[s].status = 200
    /\ req[g].kind = "POST /traders/register" /\ req[g].status = 200
    /\ req[s].body.isPublic = "true"
    /\ req[g].body.isPublic = "false"
    /\ ToLower(req[s].body.walletAddress) = ToLower(req[g].body.walletAddress)
    /\ Cardinality(UsersOf(users, ToLower(req[s].body.walletAddress))) = 1
    /\ Len(traders) = 1
    /\ traders[1].updated_at = <<MaxTime>>

----------------------------------------------------------------------------
(* Every route that writes or reads the users table, called with one wallet
   address in two spellings. *)

Spellings == {Addr_a, Addr_A}

UsersRegisterBodies ==
  [walletAddress : Spellings, isPublic : {"false"}, categories : {<<>>}]

UsersCopyBodies ==
  [followerAddress : {Addr_A}, traderAddress : {Addr_a},
   amount : {<<"1", "0">>}, categories : {<<>>}, maxTrades : {<<>>}]

UsersPutBodies ==
  [walletAddress : Spellings, amount : {<<>>}, categories : {<<>>},
   maxTrades : {<<>>}, active : {"true"}]

UsersCreateBodies ==
  [walletAddress : Spellings, question : {"Will it rain?"},
   category : {"sports"}, duration : {<<"1">>}]

UsersBetBodies ==
  [walletAddress : Spellings, prediction : {"true"}, amount : {<<"5">>}]

UsersAgentBodies ==
  [followerAddress : {Addr_a}, traderAddress : {Addr_A},
   maxPerTrade : {<<"5">>}, totalLimit : {<<"9">>}, categories : {<<>>}]

UsersAuthorizeBodies == [walletAddress : Spellings, spendingLimit : {<<"7">>}]

UsersToggleBodies == [walletAddress : Spellings, active : {"true"}]

InitUsers ==
  /\ EmptyStore
  /\ req = [s \in {1} |-> Idle]

NextUsers ==
  \E s \in DOMAIN req :
    \/ PostRegister(s, UsersRegisterBodies)
    \/ PostRegisterUpsertUser(s)
    \/ PostRegisterUpsertTrader(s)
    \/ GetTrader(s, Spellings)
    \/ GetTraderSubstreams(s, {LiveTrader})
    \/ GetTraderSelectTrader(s)
    \/ GetStats(s, Spellings)
    \/ GetStatsSubstreams(s, {LiveTrader})
    \/ GetStatsSelectTrader(s)
    \/ PostCreate(s, UsersCreateBodies)
    \/ PostCreateUpsertUser(s)
    \/ PostCreateBlockchain(s, {1})
    \/ PostCreateInsert(s, MaxMarkets)
    \/ PostBet(s, {<<"1">>}, UsersBetBodies)
    \/ PostBetUpsertUser(s)
    \/ PostBetBlockchain(s, {"0xbet"})
    \/ PostBetInsert(s, MaxTrades)
    \/ PostCopyTrade(s, UsersCopyBodies)
    \/ PostCopyTradeUpsertFollower(s)
    \/ PostCopyTradeUpsertTrader(s)
    \/ PostCopyTradeInsert(s, MaxCopyTrades)
    \/ GetUserCopyTrades(s, Spellings, {"undefined"})
    \/ GetUserCopyTradesSelectUser(s)
    \/ GetUserCopyTradesSelect(s)
    \/ PutCopyTrade(s, CopyIds, UsersPutBodies)
    \/ PutCopyTradeSelectUser(s)
    \/ PutCopyTradeSelectExisting(s)
    \/ PutCopyTradeUpdate(s, WriteTimes)
    \/ DeleteCopyTrade(s, CopyIds, Spellings)
    \/ DeleteCopyTradeSelectUser(s)
    \/ DeleteCopyTradeUpdate(s, WriteTimes)
    \/ GetCopyTradeExecutions(s, CopyIds, Spellings)
    \/ GetCopyTradeExecutionsSelectUser(s)
    \/ GetCopyTradeExecutionsSelectCopyTrade(s)
    \/ GetCopyTradeExecutionsSelect(s)
    \/ PostAgentCreate(s, UsersAgentBodies)
    \/ PostAgentCreateUpsertFollower(s)
    \/ PostAgentCreateUpsertTrader(s)
    \/ PostAgentCreateX402(s, AgentResults, Randoms)
    \/ PostAgentCreateInsert(s, MaxAgents)
    \/ GetAgents(s, Spellings)
    \/ GetAgentsSelectUser(s)
    \/ GetAgentsSelectAgents(s)
    \/ GetAgentsStatus(s, {"active"})
    \/ PostAuthorize(s, CopyIds, UsersAuthorizeBodies)
    \/ PostAuthorizeSelectUser(s)
    \/ PostAuthorizeSelectAgent(s)
    \/ PostAuthorizeX402(s, {"0xauthorize"}, Randoms)
    \/ PostAuthorizeUpdate(s, WriteTimes)
    \/ PostToggle(s, CopyIds, UsersToggleBodies)
    \/ PostToggleSelectUser(s)
    \/ PostToggleSelectAgent(s)
    \/ PostToggleX402(s, {"0xtoggle"}, Randoms)
    \/ PostToggleUpdate(s, WriteTimes)
    \/ GetAgentExecutions(s, CopyIds, Spellings)
    \/ GetAgentExecutionsSelectUser(s)
    \/ GetAgentExecutionsSelectAgent(s)
    \/ GetAgentExecutionsX402(s, {<<>>})

SpecUsers == InitUsers /\ [][NextUsers]_vars

----------------------------------------------------------------------------
(* Claims on wallet addresses. *)

SameLetter(c, d) == c = d \/ {c, d} \in {{"a", "A"}, {"b", "B"}}

\* two addresses equal ignoring case
SameIgnoringCase(x, y) ==
  Len(x) = Len(y) /\ \A k \in DOMAIN x : SameLetter(x[k], y[k])

IsLowercase(x) == \A k \in DOMAIN x : x[k] \notin {"A", "B"}

\* the wallet address a request was sent with
AddressOf(r) ==
  CASE r.kind \in {"GET /copy-trades/user/:address", "GET /traders/:address",
                   "GET /traders/stats/:address"} -> r.params.address
    [] r.kind \in {"GET /copy-trades/:id/executions", "GET /x402/agents/:walletAddress",
                   "GET /x402/agent/:id/executions"} -> r.params.walletAddress
    [] r.kind \in {"POST /copy-trades", "POST /x402/agent/create"} -> r.body.followerAddress
    [] OTHER -> r.body.walletAddress

\* the request holds the id of a User it has upserted or looked up
HoldsUser(r, field) ==
  /\ r.pc \notin {"idle", "done"}
  /\ r.local # <<>>
  /\ field \in DOMAIN r.local
  /\ r.local[field] # 0

\* C6: no two User rows have addresses equal ignoring case, and every stored
\* address is lowercase; the User a request has upserted or looked up is the
\* row whose address is the request's address ignoring case, whatever the
\* spelling of the request; the address in the response of a successful
\* registration is the lowercased address of the request.
C6_AddressesCaseInsensitive ==
  /\ \A i, j \in DOMAIN users :
       SameIgnoringCase(users[i].wallet_address, users[j].wallet_address) => i = j
  /\ \A i \in DOMAIN users : IsLowercase(users[i].wallet_address)
  /\ \A s \in DOMAIN req :
       LET r == req[s] IN
       /\ HoldsUser(r, "user")
          => /\ r.local.user \in DOMAIN users
             /\ SameIgnoringCase(users[r.local.user].wallet_address, AddressOf(r))
       /\ HoldsUser(r, "follower")
          => /\ r.local.follower \in DOMAIN users
             /\ SameIgnoringCase(users[r.local.follower].wallet_address,
                                 r.body.followerAddress)
       /\ HoldsUser(r, "trader")
          => /\ r.local.trader \in DOMAIN users
             /\ SameIgnoringCase(users[r.local.trader].wallet_address,
                                 r.body.traderAddress)
       /\ (r.kind = "POST /traders/register" /\ r.pc = "done" /\ r.status = 200)
          => /\ IsLowercase(r.res.address)
             /\ SameIgnoringCase(r.res.address, r.body.walletAddress)

\* a registration sent with the uppercase spelling has succeeded: its response
\* carries the lowercase spelling and the one User row stores it
C6_Witness ==
  \E s \in DOMAIN req :
    /\ req[s].kind = "POST /traders/register"
    /\ req[s].pc = "done"
    /\ req[s].status = 200
    /\ req[s].body.walletAddress = Addr_A
    /\ req[s].res.address = Addr_a
    /\ Len(users) = 1
    /\ users[1].wallet_address = Addr_a
    /\ Len(copy_trades) = 1
    /\ Len(x402_agents) = 1

----------------------------------------------------------------------------
(* Claims on the fallback of the leaderboard and of the active markets. *)

LiveLeaderboard == "substreams.getTraderLeaderboard"
LiveActive == "blockchain.getActiveMarkets"

\* no traders row of a public User carries the category asked for
NoPublicTrader(category) ==
  ~ \E i \in DOMAIN traders :
      /\ users[traders[i].user_id].is_public
      /\ category = <<>> \/ \E k \in DOMAIN traders[i].categories :
                              traders[i].categories[k] = category[1]

\* the store query of a leaderboard request returns in this step, with an
\* error or without
LeaderboardStoreReturns(s, error) ==
  /\ At(s, "GET /traders/leaderboard", "selectTraders")
  /\ req'[s].pc = "done"
  /\ req[s].faults = <<LiveLeaderboard>>
  /\ req'[s].faults = IF error THEN <<LiveLeaderboard, "traders.select">>
                      ELSE <<LiveLeaderboard>>

NoOpenMarket(category) ==
  ~ \E i \in DOMAIN markets :
      /\ ~markets[i].resolved
      /\ category = <<>> \/ markets[i].category = category[1]

\* the store query of an active markets request returns without error
ActiveStoreReturns(s) ==
  /\ At(s, "GET /markets/active", "selectMarkets")
  /\ req'[s].pc = "done"
  /\ req[s].faults = <<LiveActive>>
  /\ req'[s].faults = <<LiveActive>>

\* C8: the live source has faulted and the store query returns zero rows
\* without error; the response is the 3-entry demo list with source "demo".
C8_EmptyStoreIsDemo ==
  [][\A s \in DOMAIN req :
       (ActiveStoreReturns(s) /\ NoOpenMarket(req[s].params.category))
       => /\ Sends(s, 200)
          /\ req'[s].res.markets = DemoMarkets
          /\ Len(req'[s].res.markets) = 3
          /\ req'[s].res.source = "demo"]_vars

----------------------------------------------------------------------------
(* The five read routes that have a fallback chain, with the routes that
   write the tables they read. *)

ReadsRegisterBodies ==
  [walletAddress : {Addr_a}, isPublic : {"true", "false"}, categories : {<<>>}]

ReadsCreateBodies ==
  [walletAddress : {Addr_a}, question : {"Will it rain?"},
   category : {"sports"}, duration : {<<"1">>}]

ReadsBetBodies ==
  [walletAddress : {Addr_a}, prediction : {"true"}, amount : {<<"5">>}]

InitReads ==
  /\ EmptyStore
  /\ req = [s \in {1} |-> Idle]

NextReads ==
  \E s \in DOMAIN req :
    \/ GetLeaderboard(s, {<<>>, <<"sports">>}, {<<>>, <<"1">>})
    \/ GetLeaderboardSubstreams(s, {<<>>, <<LiveTrader>>})
    \/ GetLeaderboardSelectTraders(s)
    \/ GetTrader(s, {Addr_a, Addr_b})
    \/ GetTraderSubstreams(s, {LiveTrader})
    \/ GetTraderSelectTrader(s)
    \/ GetStats(s, {Addr_a, Addr_b})
    \/ GetStatsSubstreams(s, {LiveTrader})
    \/ GetStatsSelectTrader(s)
    \/ GetActive(s, {<<>>, <<"finance">>}, {<<>>, <<"1">>})
    \/ GetActiveBlockchain(s, {<<>>, <<LiveMarket>>})
    \/ GetActiveSelectMarkets(s)
    \/ GetMarket(s, {<<"1">>, <<"2">>})
    \/ GetMarketBlockchain(s, {LiveMarket})
    \/ GetMarketSelectMarket(s)
    \/ GetMarketSelectTrades(s)
    \/ PostRegister(s, ReadsRegisterBodies)
    \/ PostRegisterUpsertUser(s)
    \/ PostRegisterUpsertTrader(s)
    \/ PostCreate(s, ReadsCreateBodies)
    \/ PostCreateUpsertUser(s)
    \/ PostCreateBlockchain(s, {1})
    \/ PostCreateInsert(s, MaxMarkets)
    \/ PostBet(s, {<<"1">>}, ReadsBetBodies)
    \/ PostBetUpsertUser(s)
    \/ PostBetBlockchain(s, {"0xbet"})
    \/ PostBetInsert(s, MaxTrades)

SpecReads == InitReads /\ [][NextReads]_vars

----------------------------------------------------------------------------
(* Claims on the order of the tiers and on the 500 responses. *)

\* the call of slot s to the live source returns in this step: it throws
\* (fault) or resolves
LiveReturns(s, kind, pc, fault) ==
  /\ At(s, kind, pc)
  /\ req'[s] # req[s]
  /\ req'[s].faults = IF fault THEN <<req'[s].calls[1]>> ELSE <<>>

\* every request first calls the live source; the store is queried second,
\* and only by a request whose live call has faulted
LiveThenStore ==
  \A s \in DOMAIN req :
    /\ At(s, "GET /traders/leaderboard", "selectTraders")
       => req[s].calls = <<LiveLeaderboard>> /\ req[s].faults = <<LiveLeaderboard>>
    /\ At(s, "GET /markets/active", "selectMarkets")
       => req[s].calls = <<LiveActive>> /\ req[s].faults = <<LiveActive>>
    /\ LiveReturns(s, "GET /traders/leaderboard", "substreams", TRUE)
       => req'[s].pc = "selectTraders"
    /\ LiveReturns(s, "GET /markets/active", "blockchain", TRUE)
       => req'[s].pc = "selectMarkets"

ReadRoutes ==
  {"GET /traders/leaderboard", "GET /traders/:address", "GET /traders/stats/:address",
   "GET /markets/active", "GET /markets/:id"}

\* the call to the last tier a read route has, "static" where the last tier
\* is a list of the handler
LastTier(kind) ==
  CASE kind = "GET /traders/leaderboard" -> "static"
    [] kind = "GET /markets/active" -> "static"
    [] kind = "GET /traders/:address" -> "traders.select"
    [] kind = "GET /traders/stats/:address" -> "traders.select"
    [] kind = "GET /markets/:id" -> "markets.select"

\* the first call of every read route is the call to its live source
LiveFaulted(r) == Len(r.faults) >= 1 /\ r.faults[1] = r.calls[1]

----------------------------------------------------------------------------
(* Claims on the write paths of the markets router. *)

\* the request has made this call and the call has faulted
Faulted(r, call) == Contains(r.faults, call)

\* the request has made this call
Called(r, call) == Contains(r.calls, call)

\* the chain call of a write route of the markets router and the insert that
\* mirrors it
ChainCall(kind) ==
  CASE kind = "POST /markets/create" -> "blockchain.createMarket"
    [] kind = "POST /markets/:id/bet" -> "blockchain.placeBet"

MirrorInsert(kind) ==
  CASE kind = "POST /markets/create" -> "markets.insert"
    [] kind = "POST /markets/:id/bet" -> "trades.insert"

\* C11: for POST /api/markets/create and POST /api/markets/:id/bet, the step
\* in which the blockchain call faults sends 500 and changes no table, and a
\* request whose blockchain call has faulted never makes the insert: whatever
\* step it takes, it is answered 500, it has not called markets.insert
\* (trades.insert) and the tables markets and trades are as before the step.
C11_ChainFaultIs500NoInsert ==
  [][\A s \in DOMAIN req :
       \A kind \in {"POST /markets/create", "POST /markets/:id/bet"} :
         (Steps(s, kind) /\ Faulted(req'[s], ChainCall(kind)))
         => /\ Sends(s, 500)
            /\ ~Called(req'[s], MirrorInsert(kind))
            /\ markets' = markets
            /\ trades' = trades]_vars

\* a create and a bet have both been answered 500 after their blockchain call
\* threw, each having upserted its user before, and neither table has a row
C11_Witness ==
  \E s, t \in DOMAIN req :
    /\ req[s].kind = "POST /markets/create"
    /\ req[s].pc = "done" /\ req[s].status = 500
    /\ req[s].calls = <<"users.upsert", "blockchain.createMarket">>
    /\ req[s].faults = <<"blockchain.createMarket">>
    /\ req[t].kind = "POST /markets/:id/bet"
    /\ req[t].pc = "done" /\ req[t].status = 500
    /\ req[t].calls = <<"users.upsert", "blockchain.placeBet">>
    /\ req[t].faults = <<"blockchain.placeBet">>
    /\ markets = <<>> /\ trades = <<>>

----------------------------------------------------------------------------
(* Claims on the write paths of the x402 router. *)

AgentWrites ==
  {"POST /x402/agent/create", "POST /x402/agent/:id/authorize",
   "POST /x402/agent/:id/toggle"}

\* a call of the request to the x402 service has thrown
X402Faulted(r) == \E k \in DOMAIN r.faults : r.faults[k] \in X402Service

\* a call of the request to the store has returned an error
StoreFaulted(r) == \E k \in DOMAIN r.faults : r.faults[k] \notin X402Service

\* the tables after the step hold what the 200 response of slot s reports:
\* for a create, a row with the id of the response, owned by the user of
\* followerAddress (what the list and the ownership filter of authorize and
\* toggle select by) and carrying the agent address and active flag of the
\* response; for an authorize, the amount in the row of :id; for a toggle,
\* the active flag of the response in the row of :id
StoreMirrors(s) ==
  LET r == req'[s]
      id == ParseInt(r.params.id)
  IN
  CASE r.kind = "POST /x402/agent/create" ->
         /\ r.res.id \in DOMAIN x402_agents'
         /\ LET row == x402_agents'[r.res.id] IN
            /\ row.user_id \in DOMAIN users'
            /\ SameIgnoringCase(users'[row.user_id].wallet_address,
                                r.res.followerAddress)
            /\ row.agent_address = r.res.agentAddress
            /\ row.active = r.res.active
    [] r.kind = "POST /x402/agent/:id/authorize" ->
         /\ id \in DOMAIN x402_agents'
         /\ x402_agents'[id].authorized_amount = <<ParseFloat(r.res.spendingLimit)>>
    [] r.kind = "POST /x402/agent/:id/toggle" ->
         /\ id \in DOMAIN x402_agents'
         /\ x402_agents'[id].active = (r.res.active = "true")

----------------------------------------------------------------------------
(* The six write paths that mirror an external write into the store. *)

MaxExecutions == 1

WebhookBodies ==
  [agentAddress : {"0xagent", "0xother", ""},
   executionData : {<<>>, <<[txHash |-> "0xexec"]>>}]

WritesCreateBodies ==
  [walletAddress : {Addr_a}, question : {"Will it rain?"},
   category : {"sports"}, duration : {<<"1">>}]

WritesBetBodies ==
  [walletAddress : {Addr_a}, prediction : {"true", "1"}, amount : {<<"5">>}]

WritesToggleBodies == [walletAddress : {Addr_a, Addr_b}, active : {"false", "true"}]

InitWrites ==
  /\ EmptyStore
  /\ req = [s \in {1} |-> Idle]

NextWrites ==
  \E s \in DOMAIN req :
    \/ PostCreate(s, WritesCreateBodies)
    \/ PostCreateUpsertUser(s)
    \/ PostCreateBlockchain(s, {1})
    \/ PostCreateInsert(s, MaxMarkets)
    \/ PostBet(s, {<<"1">>}, WritesBetBodies)
    \/ PostBetUpsertUser(s)
    \/ PostBetBlockchain(s, {"0xbet"})
    \/ PostBetInsert(s, MaxTrades)
    \/ PostAgentCreate(s, AgentCreateBodies)
    \/ PostAgentCreateUpsertFollower(s)
    \/ PostAgentCreateUpsertTrader(s)
    \/ PostAgentCreateX402(s, AgentResults, Randoms)
    \/ PostAgentCreateInsert(s, MaxAgents)
    \/ PostAuthorize(s, {<<"1">>}, AuthorizeBodies)
    \/ PostAuthorizeSelectUser(s)
    \/ PostAuthorizeSelectAgent(s)
    \/ PostAuthorizeX402(s, {"0xauthorize"}, Randoms)
    \/ PostAuthorizeUpdate(s, WriteTimes)
    \/ PostToggle(s, {<<"1">>}, WritesToggleBodies)
    \/ PostToggleSelectUser(s)
    \/ PostToggleSelectAgent(s)
    \/ PostToggleX402(s, {"0xtoggle"}, Randoms)
    \/ PostToggleUpdate(s, WriteTimes)
    \/ PostWebhook(s, WebhookBodies)
    \/ PostWebhookSelectAgent(s)
    \/ PostWebhookInsert(s, MaxExecutions)

SpecWrites == InitWrites /\ [][NextWrites]_vars

----------------------------------------------------------------------------
(* Claims on the mirror step of the write paths. *)

WriteRoutes ==
  {"POST /markets/create", "POST /markets/:id/bet", "POST /x402/agent/create",
   "POST /x402/agent/:id/authorize", "POST /x402/agent/:id/toggle",
   "POST /x402/webhook/execution"}

\* the store call that mirrors the external write of a write route
MirrorCall(kind) ==
  CASE kind = "POST /markets/create" -> "markets.insert"
    [] kind = "POST /markets/:id/bet" -> "trades.insert"
    [] kind = "POST /x402/agent/create" -> "x402_agents.insert"
    [] kind = "POST /x402/agent/:id/authorize" -> "x402_agents.update"
    [] kind = "POST /x402/agent/:id/toggle" -> "x402_agents.update"
    [] kind = "POST /x402/webhook/execution" -> "agent_executions.insert"

\* slot s makes the mirror call of its route in this step
Mirrors(s, kind) ==
  /\ Steps(s, kind)
  /\ req[s].kind = kind
  /\ Len(req'[s].calls) = Len(req[s].calls) + 1
  /\ req'[s].calls[Len(req'[s].calls)] = MirrorCall(kind)

\* the response of slot s carries what the external write has returned to the
\* request before this step (for the webhook, the agent address it reports)
CarriesExternalResult(s) ==
  LET r == req[s]
      res == req'[s].res
  IN
  CASE r.kind = "POST /markets/create" -> res.marketId = r.local.marketId
    [] r.kind = "POST /markets/:id/bet" -> res.txHash = r.local.txHash
    [] r.kind = "POST /x402/agent/create" ->
         /\ res.agentAddress = r.local.agentResult.agentAddress
         /\ res.txHash = r.local.agentResult.txHash
    [] r.kind = "POST /x402/agent/:id/authorize" ->
         /\ res.authorizationTx = r.local.txHash
         /\ res.agentAddress = r.local.agentAddress
    [] r.kind = "POST /x402/agent/:id/toggle" -> res.toggleTx = r.local.txHash
    [] r.kind = "POST /x402/webhook/execution" -> res.agentAddress = r.body.agentAddress

\* C13: on the six write paths, the step that makes the mirror insert/update
\* after the external write has succeeded answers 200 with the external
\* result (marketId, txHash, agentAddress), whether the store call returns an
\* error or not; no fault of the request is a fault of the external write.
C13_MirrorErrorKeeps200 ==
  [][\A s \in DOMAIN req :
       \A kind \in WriteRoutes :
         Mirrors(s, kind)
         => /\ Sends(s, 200)
            /\ CarriesExternalResult(s)
            /\ ~X402Faulted(req'[s])
            /\ ~Faulted(req'[s], "blockchain.createMarket")
            /\ ~Faulted(req'[s], "blockchain.placeBet")]_vars

\* an agent create has been answered 200 with the address and transaction the
\* x402 service returned although the insert of its row returned an error and
\* the table holds no agent
C13_Witness ==
  \E s \in DOMAIN req :
    /\ req[s].kind = "POST /x402/agent/create"
    /\ req[s].pc = "done" /\ req[s].status = 200
    /\ req[s].faults = <<"x402_agents.insert">>
    /\ req[s].res.agentAddress = "0xagent"
    /\ req[s].res.txHash = "0xcreate"
    /\ x402_agents = <<>>

----------------------------------------------------------------------------
(* Claims on the list of a user's copy trades. *)

\* the ids of the User rows stored for the address
UserIdsOf(w) == {u \in DOMAIN users : SameIgnoringCase(users[u].wallet_address, w)}

\* the rows the list of the address has to hold: active, and with the user in
\* the column the direction names
ActiveRowsOf(w, type) ==
  {i \in DOMAIN copy_trades :
     /\ copy_trades[i].active
     /\ IF type = "followers" THEN copy_trades[i].trader_id \in UserIdsOf(w)
        ELSE copy_trades[i].follower_id \in UserIdsOf(w)}

\* C14: GET /api/copy-trades/user/:address answers 200 with an empty list in
\* the step of its user lookup when no User row is stored for the address;
\* when the lookup returns the User, the following select, unless it returns
\* an error, answers 200 with one entry for each copy-trade row that is active
\* and has the User as follower (type absent) or as trader (type =
\* 'followers'), and with no other entry; no 200 response of the route lists
\* an inactive row or a row of another user.
C14_ListsExactlyActiveRowsOfUser ==
  [][\A s \in DOMAIN req :
       Steps(s, "GET /copy-trades/user/:address")
       => LET r == req'[s]
              w == r.params.address
              list == r.res.copyTrades
              listed == {list[k].id : k \in DOMAIN list}
              rows == ActiveRowsOf(w, r.params.type)
          IN
          /\ (At(s, "GET /copy-trades/user/:address", "selectUser") /\ UserIdsOf(w) = {})
             => (Sends(s, 200) /\ list = <<>>)
          /\ (At(s, "GET /copy-trades/user/:address", "selectUser")
                /\ UserIdsOf(w) # {} /\ r.faults = <<>>)
             => r.pc = "selectCopyTrades"
          /\ (At(s, "GET /copy-trades/user/:address", "selectCopyTrades")
                /\ r.faults = <<>>)
             => /\ Sends(s, 200)
                /\ listed = rows
                /\ Len(list) = Cardinality(rows)
          /\ Sends(s, 200)
             => /\ listed \subseteq rows
                /\ \A k \in DOMAIN list : list[k].active]_vars

\* one list of the follower holds the row, answered while the row was active;
\* a later list of the same follower, answered with no fault after the row
\* was deactivated, is empty although the row is still stored
C14_Witness ==
  \E s, t \in DOMAIN req :
    /\ req[s].kind = "GET /copy-trades/user/:address"
    /\ req[s].pc = "done" /\ req[s].status = 200
    /\ Len(req[s].res.copyTrades) = 1
    /\ req[s].res.copyTrades[1].id = 1
    /\ req[t].kind = "GET /copy-trades/user/:address"
    /\ req[t].pc = "done" /\ req[t].status = 200
    /\ req[t].params.type = "undefined"
    /\ req[t].calls = <<"users.select", "copy_trades.select">>
    /\ req[t].faults = <<>>
    /\ req[t].res.copyTrades = <<>>
    /\ Len(copy_trades) = 1
    /\ ~copy_trades[1].active
    /\ copy_trades[1].follower_id \in UserIdsOf(req[t].params.address)

----------------------------------------------------------------------------
(* The ten non-GET endpoints. The bodies of POST /copy-trades, agent create
   and the webhook carry a walletAddress as well, present or absent, which
   their handlers do not read. The inserts of markets, trades and executions
   are refused by the store here. *)

NextCallers ==
  \E s \in DOMAIN req :
    \/ PostRegister(s, [walletAddress : {Addr_a, <<>>}, isPublic : {"false"},
                        categories : {<<>>}])
    \/ PostRegisterUpsertUser(s)
    \/ PostRegisterUpsertTrader(s)
    \/ PostCopyTrade(s, [followerAddress : {Addr_a, <<>>}, traderAddress : {Addr_b},
                         amount : {<<"1", "0">>}, categories : {<<>>},
                         maxTrades : {<<>>}, walletAddress : {<<>>, Addr_a}])
    \/ PostCopyTradeUpsertFollower(s)
    \/ PostCopyTradeUpsertTrader(s)
    \/ PostCopyTradeInsert(s, MaxCopyTrades)
    \/ PutCopyTrade(s, CopyIds, [walletAddress : {Addr_a, <<>>}, amount : {<<>>},
                                 categories : {<<>>}, maxTrades : {<<>>},
                                 active : {"true"}])
    \/ PutCopyTradeSelectUser(s)
    \/ PutCopyTradeSelectExisting(s)
    \/ PutCopyTradeUpdate(s, WriteTimes)
    \/ DeleteCopyTrade(s, CopyIds, {Addr_a, <<>>})
    \/ DeleteCopyTradeSelectUser(s)
    \/ DeleteCopyTradeUpdate(s, WriteTimes)
    \/ PostCreate(s, [walletAddress : {Addr_a, <<>>}, question : {"Will it rain?"},
                      category : {"sports"}, duration : {<<"1">>}])
    \/ PostCreateUpsertUser(s)
    \/ PostCreateBlockchain(s, {1})
    \/ PostCreateInsert(s, 0)
    \/ PostBet(s, {<<"1">>}, [walletAddress : {Addr_a, <<>>}, prediction : {"true"},
                              amount : {<<"5">>}])
    \/ PostBetUpsertUser(s)
    \/ PostBetBlockchain(s, {"0xbet"})
    \/ PostBetInsert(s, 0)
    \/ PostAgentCreate(s, [followerAddress : {Addr_a, <<>>}, traderAddress : {Addr_b},
                           maxPerTrade : {<<"5">>}, totalLimit : {<<"9">>},
                           categories : {<<>>}, walletAddress : {<<>>, Addr_a}])
    \/ PostAgentCreateUpsertFollower(s)
    \/ PostAgentCreateUpsertTrader(s)
    \/ PostAgentCreateX402(s, AgentResults, Randoms)
    \/ PostAgentCreateInsert(s, MaxAgents)
    \/ PostAuthorize(s, CopyIds, [walletAddress : {Addr_a, <<>>},
                                  spendingLimit : {<<"7">>}])
    \/ PostAuthorizeSelectUser(s)
    \/ PostAuthorizeSelectAgent(s)
    \/ PostAuthorizeX402(s, {"0xauthorize"}, Randoms)
    \/ PostAuthorizeUpdate(s, WriteTimes)
    \/ PostToggle(s, CopyIds, [walletAddress : {Addr_a, <<>>}, active : {"true"}])
    \/ PostToggleSelectUser(s)
    \/ PostToggleSelectAgent(s)
    \/ PostToggleX402(s, {"0xtoggle"}, Randoms)
    \/ PostToggleUpdate(s, WriteTimes)
    \/ PostWebhook(s, [agentAddress : {"0xagent", ""},
                       executionData : {<<[txHash |-> "0xexec"]>>},
                       walletAddress : {<<>>, Addr_a}])
    \/ PostWebhookSelectAgent(s)
    \/ PostWebhookInsert(s, 0)

SpecCallers == InitWrites /\ [][NextCallers]_vars

----------------------------------------------------------------------------
(* Claims on the identification of the caller. *)

NonGetRoutes ==
  {"POST /traders/register", "POST /markets/create", "POST /markets/:id/bet",
   "POST /copy-trades", "PUT /copy-trades/:id", "DELETE /copy-trades/:id",
   "POST /x402/agent/create", "POST /x402/agent/:id/authorize",
   "POST /x402/agent/:id/toggle", "POST /x402/webhook/execution"}

\* the field of the body a non-GET route takes the acting party from: the
\* follower for POST /copy-trades and agent create, the reporting agent for
\* the webhook, walletAddress for the seven others
PartyField(kind) ==
  CASE kind \in {"POST /copy-trades", "POST /x402/agent/create"} -> "followerAddress"
    [] kind = "POST /x402/webhook/execution" -> "agentAddress"
    [] OTHER -> "walletAddress"

\* the body does not have the field (agentAddress is a text, the other
\* addresses are sequences of characters)
Lacks(body, field) ==
  IF field = "agentAddress" THEN body[field] = "" ELSE body[field] = <<>>

\* slot s receives a request of the route whose body lacks the field, and
\* answers it 400 in the same step, with no call made and no table changed
RejectsWithout(s, kind, field) ==
  (Steps(s, kind) /\ Free(s) /\ Lacks(req'[s].body, field))
  => /\ Sends(s, 400)
     /\ req'[s].calls = <<>>
     /\ store' = store

\* C15 as the specification states it: every non-GET endpoint answers 400,
\* before any store or external call, a request whose body has no
\* walletAddress.
C15_RejectsWithoutWalletAddress ==
  [][\A s \in DOMAIN req :
       \A kind \in NonGetRoutes : RejectsWithout(s, kind, "walletAddress")]_vars

\* C15, amended: every non-GET endpoint answers 400, before any store or
\* external call, a request whose body lacks the field the route takes the
\* acting party from: walletAddress for register, market create, bet,
\* authorize, toggle, PUT and DELETE /copy-trades/:id; followerAddress for
\* POST /copy-trades and agent create; agentAddress for the webhook.  On the
\* last three routes a request with that field is not answered 400 for want
\* of a walletAddress.
C15_RejectsWithoutPartyField ==
  [][\A s \in DOMAIN req :
       \A kind \in NonGetRoutes :
         /\ RejectsWithout(s, kind, PartyField(kind))
         /\ (Steps(s, kind) /\ Free(s) /\ PartyField(kind) # "walletAddress"
               /\ ~Lacks(req'[s].body, PartyField(kind)))
            => ~Sends(s, 400)]_vars

\* a toggle with no walletAddress has been answered 400 with no call made,
\* and the table holds a copy trade whose POST carried no walletAddress
C15_Witness ==
  \E s \in DOMAIN req :
    /\ req[s].kind = "POST /x402/agent/:id/toggle"
    /\ req[s].pc = "done" /\ req[s].status = 400
    /\ req[s].body.walletAddress = <<>>
    /\ req[s].calls = <<>>
    /\ Len(copy_trades) = 1

----------------------------------------------------------------------------
(* Claims on the two ends of a copy-trade row. *)

\* C16: every copy-trade row references two distinct Users: follower_id is
\* never equal to trader_id, also when POST /api/copy-trades is called with a
\* followerAddress and a traderAddress that are equal or differ only in case.
C16_FollowerIsNotTrader ==
  \A i \in DOMAIN copy_trades : copy_trades[i].follower_id # copy_trades[i].trader_id

----------------------------------------------------------------------------
(* Claims on the single-item reads when neither tier has the item. *)

\* no trader profile is stored for the address
NoMatchingTrader(w) ==
  \A i \in DOMAIN traders :
    ~SameIgnoringCase(users[traders[i].user_id].wallet_address, w)

\* no market row has the id
NoMatchingMarket(id) == \A i \in DOMAIN markets : markets[i].id # ParseInt(id)

\* slot s, whose live call has faulted, takes the step of its store query
StoreStepAfterLiveFault(s, kind, pc) ==
  At(s, kind, pc) /\ Steps(s, kind) /\ LiveFaulted(req[s])

\* C17: when the live source has faulted and the store holds no matching row,
\* the store step of GET /api/traders/:address and of GET /api/markets/:id
\* answers 404 with nothing but the error message (no static trader or
\* market), and the store step of GET /api/traders/stats/:address, unless the
\* query returns an error other than "no row", answers 200 with winRate,
\* totalTrades, profitLoss and totalVolume 0, no categories, and the address
\* as it was requested.
C17_NoRowIs404OrZeroStats ==
  [][\A s \in DOMAIN req :
       /\ (StoreStepAfterLiveFault(s, "GET /traders/:address", "selectTrader")
             /\ NoMatchingTrader(req[s].params.address))
          => (Sends(s, 404) /\ req'[s].res = [error |-> "Trader not found"])
       /\ (StoreStepAfterLiveFault(s, "GET /markets/:id", "selectMarket")
             /\ NoMatchingMarket(req[s].params.id))
          => (Sends(s, 404) /\ req'[s].res = [error |-> "Market not found"])
       /\ (StoreStepAfterLiveFault(s, "GET /traders/stats/:address", "selectTrader")
             /\ NoMatchingTrader(req[s].params.address)
             /\ ~Faulted(req'[s], "traders.select"))
          => /\ Sends(s, 200)
             /\ req'[s].res =
                  [address |-> req[s].params.address, winRate |-> 0,
                   totalTrades |-> 0, profitLoss |-> 0, totalVolume |-> 0,
                   categories |-> <<>>]]_vars

\* with a profile of another address and a market of another id stored, the
\* stats of an address with no profile have been answered 200 with zeroes
\* after the live source threw and the store query returned no row
C17_Witness ==
  \E s \in DOMAIN req :
    /\ req[s].kind = "GET /traders/stats/:address"
    /\ req[s].pc = "done" /\ req[s].status = 200
    /\ req[s].calls = <<"substreams.getTraderDetails", "traders.select">>
    /\ req[s].faults = <<"substreams.getTraderDetails">>
    /\ req[s].res.address = Addr_b
    /\ req[s].res.totalTrades = 0
    /\ traders # <<>> /\ markets # <<>>
    /\ NoMatchingTrader(Addr_b)

----------------------------------------------------------------------------
(* Claims on the writers of is_public. *)

\* slot s takes the step pc of the route, and the upsert of the step returns
\* no error
UpsertsAt(s, kind, pc) ==
  /\ At(s, kind, pc)
  /\ Steps(s, kind)
  /\ Len(req'[s].faults) = Len(req[s].faults)

\* the routes that upsert a follower and then the trader they name
NamesTrader == {"POST /copy-trades", "POST /x402/agent/create"}

\* C18: the trader upsert of POST /api/copy-trades and of POST
\* /api/x402/agent/create leaves the user of traderAddress with is_public =
\* true, whatever the flag was (a user registered with isPublic = false
\* included), and a trader profile of that user then passes the filter of
\* the store-backed leaderboard; the follower upsert of these routes and the
\* user upsert of market create and of bet change no existing User row.
C18_NamedTraderBecomesPublic ==
  [][\A s \in DOMAIN req :
       /\ \A kind \in NamesTrader :
            UpsertsAt(s, kind, "upsertTrader")
            => \E u \in DOMAIN users' :
                 /\ SameIgnoringCase(users'[u].wallet_address, req[s].body.traderAddress)
                 /\ users'[u].is_public
                 /\ \A j \in DOMAIN traders' :
                      traders'[j].user_id = u
                      => \E k \in 1..Len(traders') :
                           SelectPublicTraders(<<>>, Len(traders))'[k] = j
       /\ (\/ \E kind \in NamesTrader : UpsertsAt(s, kind, "upsertFollower")
           \/ UpsertsAt(s, "POST /markets/create", "upsertUser")
           \/ UpsertsAt(s, "POST /markets/:id/bet", "upsertUser"))
          => \A u \in DOMAIN users : users'[u] = users[u]]_vars

\* a user who registered with isPublic = false and has a trader profile is
\* public after the trader upsert of a POST /api/copy-trades that names them
C18_Witness ==
  \E s \in DOMAIN req :
    /\ At(s, "POST /copy-trades", "insert")
    /\ traders # <<>>
    /\ SameIgnoringCase(users[traders[1].user_id].wallet_address,
                        req[s].body.traderAddress)
    /\ users[traders[1].user_id].is_public
    /\ SelectPublicTraders(<<>>, LeaderboardDefaultLimit) = <<1>>

----------------------------------------------------------------------------
(* Claims on concurrent registrations. *)

\* the profile rows of a user
ProfilesOf(tbl, uid) == {j \in DOMAIN tbl : tbl[j].user_id = uid}

\* C19: registration is two store steps with nothing held between them.  The
\* User upsert of a register request leaves one User row for the address,
\* with the is_public of that request, and touches no profile; its profile
\* upsert leaves one profile of that user, with the categories of that
\* request, and touches no User row: under any interleaving of two requests
\* the stored flag is that of the User upsert that ran last and the stored
\* categories are those of the profile upsert that ran last.  A request
\* answered 500 at the profile step has made its User upsert, and that step
\* takes nothing back.
C19_EachUpsertWinsAlone ==
  [][\A s \in DOMAIN req :
       LET w == ToLower(req[s].body.walletAddress) IN
       /\ RegisterUpsertsUser(s)
          => /\ Cardinality(UsersOf(users', w)) = 1
             /\ \A i \in UsersOf(users', w) :
                  users'[i].is_public = (req[s].body.isPublic # "false")
             /\ traders' = traders
       /\ RegisterUpsertsTrader(s)
          => /\ Cardinality(ProfilesOf(traders', req[s].local.user)) = 1
             /\ \A j \in ProfilesOf(traders', req[s].local.user) :
                  traders'[j].categories = OrElse(req[s].body.categories, <<>>)
             /\ users' = users
       /\ (At(s, "POST /traders/register", "upsertTrader") /\ Sends(s, 500))
          => /\ store' = store
             /\ req'[s].calls = <<"users.upsert", "traders.upsert">>
             /\ req'[s].faults = <<"traders.upsert">>
             /\ UsersOf(users, w) # {}]_vars

\* two registrations of one address have both been answered 200, one with
\* isPublic false and no categories, one with isPublic true and the category
\* sports; the store holds the flag of the first and the categories of the
\* second, a pair that neither request asked for
C19_Witness ==
  \E s, t \in DOMAIN req :
    /\ req[s].kind = "POST /traders/register" /\ req[t].kind = "POST /traders/register"
    /\ req[s].pc = "done" /\ req[s].status = 200
    /\ req[t].pc = "done" /\ req[t].status = 200
    /\ ToLower(req[s].body.walletAddress) = ToLower(req[t].body.walletAddress)
    /\ req[s].body.isPublic = "false" /\ req[s].body.categories = <<>>
    /\ req[t].body.isPublic = "true" /\ req[t].body.categories = << <<"sports">> >>
    /\ Len(users) = 1 /\ Len(traders) = 1
    /\ ~users[1].is_public
    /\ traders[1].categories = <<"sports">>

----------------------------------------------------------------------------
(* Claims on the source tag of the list responses. *)

\* C20: the source of a list response follows the length of the list and not
\* the tier the list came from.  A 200 response of GET
\* /api/traders/leaderboard is tagged "mock" exactly when its store query
\* returned an error (the outer-catch path); otherwise it is tagged
\* "substreams" when its list is not empty and "cache" when it is empty, be
\* the list from the live source or from the store.  Every 200 response of
\* GET /api/markets/active is tagged "blockchain".
C20_SourceFollowsLength ==
  \A s \in DOMAIN req :
    (req[s].pc = "done" /\ req[s].status = 200)
    => /\ req[s].kind = "GET /traders/leaderboard"
          => req[s].res.source =
               IF Faulted(req[s], "traders.select") THEN "mock"
               ELSE IF Len(req[s].res.traders) > 0 THEN "substreams"
               ELSE "cache"
       /\ req[s].kind = "GET /markets/active"
          => req[s].res.source = "blockchain"

\* a leaderboard whose live call threw has been answered with a row of the
\* store, and the response is tagged "substreams"
C20_Witness ==
  \E s \in DOMAIN req :
    /\ req[s].kind = "GET /traders/leaderboard"
    /\ req[s].pc = "done" /\ req[s].status = 200
    /\ req[s].calls = <<LiveLeaderboard, "traders.select">>
    /\ req[s].faults = <<LiveLeaderboard>>
    /\ Len(req[s].res.traders) = 1
    /\ req[s].res.traders[1].address = Addr_a
    /\ req[s].res.source = "substreams"


----------------------------------------------------------------------------
(* Every handler at once, with the handlers that call nothing, the two
   middlewares of app.js that answer themselves, and store calls that throw
   instead of returning an error. The inserts of trades and executions are
   refused by the store here. *)

\* markets.js: GET /api/markets/categories/list answers with its static list
GetCategoriesList(s) ==
  /\ Free(s)
  /\ req' = [req EXCEPT ![s] =
       Respond(NewReq("GET /markets/categories/list", <<>>, <<>>, "recv"), 200,
               <<"sports", "politics", "finance", "weather", "entertainment",
                 "technology">>)]
  /\ UNCHANGED store

\* app.js: GET /api/health
GetHealth(s) ==
  /\ Free(s)
  /\ req' = [req EXCEPT ![s] =
       Respond(NewReq("GET /health", <<>>, <<>>, "recv"), 200, [status |-> "OK"])]
  /\ UNCHANGED store

\* app.js: a request that no route matches reaches app.use('*')
RouteNotFound(s) ==
  /\ Free(s)
  /\ req' = [req EXCEPT ![s] =
       Respond(NewReq("*", <<>>, <<>>, "recv"), 404, [error |-> "Route not found"])]
  /\ UNCHANGED store

\* app.js: express.json() passes a body it cannot parse to the error
\* middleware, and no route handler runs
ErrorMiddleware(s) ==
  /\ Free(s)
  /\ req' = [req EXCEPT ![s] =
       Respond(NewReq("express.json", <<>>, <<>>, "recv"), 500,
               [error |-> "Something went wrong!"])]
  /\ UNCHANGED store

\* the 500 of the outer catch of a handler of traders.js or markets.js
TradersMarketsCatch(kind) ==
  CASE kind = "GET /traders/:address" -> "Failed to fetch trader details"
    [] kind = "POST /traders/register" -> "Failed to register trader"
    [] kind = "GET /traders/stats/:address" -> "Failed to fetch stats"
    [] kind = "GET /markets/active" -> "Failed to fetch active markets"
    [] kind = "GET /markets/:id" -> "Failed to fetch market details"
    [] kind = "POST /markets/create" -> "Failed to create market"
    [] kind = "POST /markets/:id/bet" -> "Failed to place bet"
    [] OTHER -> ""

\* the 500 of the outer catch of a handler of copyTrades.js or x402.js
CopyTradesX402Catch(kind) ==
  CASE kind = "POST /copy-trades" -> "Failed to create copy trade"
    [] kind = "GET /copy-trades/user/:address" -> "Failed to fetch copy trades"
    [] kind = "PUT /copy-trades/:id" -> "Failed to update copy trade"
    [] kind = "DELETE /copy-trades/:id" -> "Failed to stop copy trading"
    [] kind = "GET /copy-trades/:id/executions" -> "Failed to fetch executions"
    [] kind = "POST /x402/agent/create" -> "Failed to create copy trading agent"
    [] kind = "GET /x402/agents/:walletAddress" -> "Failed to fetch my agents"
    [] kind = "POST /x402/agent/:id/authorize" -> "Failed to authorize agent"
    [] kind = "POST /x402/agent/:id/toggle" -> "Failed to toggle agent"
    [] kind = "GET /x402/agent/:id/executions" -> "Failed to fetch agent executions"
    [] kind = "POST /x402/webhook/execution" -> "Webhook processing failed"
    [] OTHER -> ""

\* the awaited store call of slot s throws instead of returning {error}. The
\* nearest enclosing catch answers: the inner catch of agent create, authorize
\* and toggle when the call is the insert or update of their inner try (the
\* demo response), the outer catch of the leaderboard (the mock list), and
\* the outer catch of the handler otherwise (its 500). Nothing is written.
StoreThrows(s, randoms) ==
  LET r == req[s]
      thrown == Outcome(r, "store.throws", TRUE)
      caught(status, res) == req' = [req EXCEPT ![s] = Respond(thrown, status, res)]
      message == IF TradersMarketsCatch(r.kind) # ""
                 THEN TradersMarketsCatch(r.kind) ELSE CopyTradesX402Catch(r.kind)
      \* the pcs at which a handler awaits the store
      storePcs ==
        {"upsertUser", "upsertFollower", "upsertTrader", "selectUser",
         "selectAgent", "selectAgents", "selectCopyTrade", "selectCopyTrades",
         "selectExecutions", "selectExisting", "selectMarket", "selectMarkets",
         "selectTrader", "selectTraders", "selectTrades", "insert", "update"}
  IN
  /\ r.pc \in storePcs
  /\ CASE At(s, "POST /x402/agent/create", "insert") ->
            \E random \in randoms :
              caught(200, [id |-> 0, agentAddress |-> random.agentAddress,
                           traderAddress |-> r.body.traderAddress,
                           followerAddress |-> r.body.followerAddress,
                           active |-> TRUE, txHash |-> random.txHash,
                           demo |-> TRUE])
       [] At(s, "POST /x402/agent/:id/authorize", "update") ->
            \E random \in randoms :
              caught(200, [authorizationTx |-> random.txHash,
                           spendingLimit |-> r.body.spendingLimit,
                           agentAddress |-> r.local.agentAddress, demo |-> TRUE])
       [] At(s, "POST /x402/agent/:id/toggle", "update") ->
            \E random \in randoms :
              caught(200, [agentId |-> ParseInt(r.params.id),
                           active |-> r.body.active,
                           toggleTx |-> random.txHash, demo |-> TRUE])
       [] At(s, "GET /traders/leaderboard", "selectTraders") ->
            caught(200, [traders |-> MockTraders, source |-> "mock"])
       [] OTHER -> caught(500, [error |-> message])
  /\ UNCHANGED store

NextLive ==
  \E s \in DOMAIN req :
    \/ GetHealth(s)
    \/ RouteNotFound(s)
    \/ ErrorMiddleware(s)
    \/ GetCategoriesList(s)
    \/ StoreThrows(s, Randoms)
    \/ GetLeaderboard(s, {<<>>}, {<<>>})
    \/ GetLeaderboardSubstreams(s, {<<LiveTrader>>})
    \/ GetLeaderboardSelectTraders(s)
    \/ GetTrader(s, {Addr_a})
    \/ GetTraderSubstreams(s, {LiveTrader})
    \/ GetTraderSelectTrader(s)
    \/ PostRegister(s, [walletAddress : {Addr_a, <<>>}, isPublic : {"true"},
                        categories : {<<>>}])
    \/ PostRegisterUpsertUser(s)
    \/ PostRegisterUpsertTrader(s)
    \/ GetStats(s, {Addr_a})
    \/ GetStatsSubstreams(s, {LiveTrader})
    \/ GetStatsSelectTrader(s)
    \/ GetActive(s, {<<>>}, {<<>>})
    \/ GetActiveBlockchain(s, {<<LiveMarket>>})
    \/ GetActiveSelectMarkets(s)
    \/ GetMarket(s, {<<"1">>})
    \/ GetMarketBlockchain(s, {LiveMarket})
    \/ GetMarketSelectMarket(s)
    \/ GetMarketSelectTrades(s)
    \/ PostCreate(s, [walletAddress : {Addr_a, <<>>}, question : {"Will it rain?"},
                      category : {"sports"}, duration : {<<"1">>}])
    \/ PostCreateUpsertUser(s)
    \/ PostCreateBlockchain(s, {1})
    \/ PostCreateInsert(s, MaxMarkets)
    \/ PostBet(s, {<<"1">>}, [walletAddress : {Addr_a, <<>>}, prediction : {"true"},
                              amount : {<<"5">>}])
    \/ PostBetUpsertUser(s)
    \/ PostBetBlockchain(s, {"0xbet"})
    \/ PostBetInsert(s, 0)
    \/ PostCopyTrade(s, [followerAddress : {Addr_a, <<>>}, traderAddress : {Addr_b},
                         amount : {<<"1", "0">>}, categories : {<<>>},
                         maxTrades : {<<>>}])
    \/ PostCopyTradeUpsertFollower(s)
    \/ PostCopyTradeUpsertTrader(s)
    \/ PostCopyTradeInsert(s, MaxCopyTrades)
    \/ GetUserCopyTrades(s, {Addr_a}, {"undefined"})
    \/ GetUserCopyTradesSelectUser(s)
    \/ GetUserCopyTradesSelect(s)
    \/ PutCopyTrade(s, CopyIds, [walletAddress : {Addr_a, <<>>}, amount : {<<>>},
                                 categories : {<<>>}, maxTrades : {<<>>},
                                 active : {"true"}])
    \/ PutCopyTradeSelectUser(s)
    \/ PutCopyTradeSelectExisting(s)
    \/ PutCopyTradeUpdate(s, WriteTimes)
    \/ DeleteCopyTrade(s, CopyIds, {Addr_a, <<>>})
    \/ DeleteCopyTradeSelectUser(s)
    \/ DeleteCopyTradeUpdate(s, WriteTimes)
    \/ GetCopyTradeExecutions(s, CopyIds, {Addr_a, <<>>})
    \/ GetCopyTradeExecutionsSelectUser(s)
    \/ GetCopyTradeExecutionsSelectCopyTrade(s)
    \/ GetCopyTradeExecutionsSelect(s)
    \/ PostAgentCreate(s, [followerAddress : {Addr_a, <<>>}, traderAddress : {Addr_b},
                           maxPerTrade : {<<"5">>}, totalLimit : {<<"9">>},
                           categories : {<<>>}])
    \/ PostAgentCreateUpsertFollower(s)
    \/ PostAgentCreateUpsertTrader(s)
    \/ PostAgentCreateX402(s, AgentResults, Randoms)
    \/ PostAgentCreateInsert(s, MaxAgents)
    \/ GetAgents(s, {Addr_a})
    \/ GetAgentsSelectUser(s)
    \/ GetAgentsSelectAgents(s)
    \/ GetAgentsStatus(s, {"active"})
    \/ PostAuthorize(s, CopyIds, [walletAddress : {Addr_a, <<>>},
                                  spendingLimit : {<<"7">>}])
    \/ PostAuthorizeSelectUser(s)
    \/ PostAuthorizeSelectAgent(s)
    \/ PostAuthorizeX402(s, {"0xauthorize"}, Randoms)
    \/ PostAuthorizeUpdate(s, WriteTimes)
    \/ PostToggle(s, CopyIds, [walletAddress : {Addr_a, <<>>}, active : {"true"}])
    \/ PostToggleSelectUser(s)
    \/ PostToggleSelectAgent(s)
    \/ PostToggleX402(s, {"0xtoggle"}, Randoms)
    \/ PostToggleUpdate(s, WriteTimes)
    \/ GetAgentExecutions(s, CopyIds, {Addr_a, <<>>})
    \/ GetAgentExecutionsSelectUser(s)
    \/ GetAgentExecutionsSelectAgent(s)
    \/ GetAgentExecutionsX402(s, {<<>>})
    \/ PostWebhook(s, [agentAddress : {"0xagent", ""},
                       executionData : {<<[txHash |-> "0xexec"]>>}])
    \/ PostWebhookSelectAgent(s)
    \/ PostWebhookInsert(s, 0)

\* Node runs the continuation of every awaited call that has settled: a
\* request that is under way takes its next step. Whether a new request
\* arrives is left open.
SpecLive ==
  /\ InitWrites
  /\ [][NextLive]_vars
  /\ WF_vars(~Free(1) /\ NextLive)

\* the request in slot s is under way: received and not answered
Pending(s) == ~Free(s)

\* the request in slot s has its response
Answered(s) == req[s].pc = "done" /\ req[s].status # 0

\* C21: every request gets exactly one response, whichever store calls return
\* an error or throw and whichever external calls throw. Not two: a request
\* carries a status exactly when its handler has ended, and a slot whose
\* request is answered changes only by taking a new request, one that has
\* made no call yet. Not zero: a request that is under way is answered in
\* the end, given that each call it awaits settles.
C21_ExactlyOneResponse ==
  /\ [](\A s \in DOMAIN req : (req[s].status # 0) <=> (req[s].pc = "done"))
  /\ [][\A s \in DOMAIN req :
          (Answered(s) /\ req'[s] # req[s])
          => (req'[s].calls = <<>> /\ req'[s].faults = <<>>)]_vars
  /\ \A s \in {1} : Pending(s) ~> Answered(s)

\* agent create answered once, by the demo response of its inner catch,
\* after x402 had created the agent and the insert threw
C21_Witness ==
  \E s \in DOMAIN req :
    /\ req[s].kind = "POST /x402/agent/create"
    /\ Answered(s)
    /\ req[s].status = 200
    /\ req[s].res.demo
    /\ req[s].calls = <<"users.upsert", "users.upsert",
                        "x402.createCopyTradingAgent", "store.throws">>
    /\ req[s].faults = <<"store.throws">>

====
